---- MODULE Spec2Model ----
(***************************************************************************)
(* A model of the grid world engine: the scene with its grid, entities,   *)
(* player movement, interaction and zone change (Spec), the Entity        *)
(* movement interface called directly (SpecMove, SpecMoveTo), the         *)
(* Interaction rule object (SpecInteraction), the EventSystem             *)
(* (SpecEvents), zone changes with a client listener (SpecZone), the Grid  *)
(* object (SpecGrid, SpecCoords), the Teleporter (SpecTeleporter) and      *)
(* Zone.loadEntities (SpecLoad).                                           *)
(*                                                                         *)
(* Every operation of the code is an operator from a scene record to a    *)
(* scene record (and a return value); the actions apply one operation to  *)
(* the current state.  The variables op, ret and log observe the last     *)
(* call: its name, its return value and the events it emitted, in order.  *)
(***************************************************************************)
EXTENDS Integers, Sequences, FiniteSets, TLC

VARIABLES
    entities,       \* GameScene.entities: the ordered entity list
    player,         \* GameScene.player: the id of the player object
    currentZoneId,  \* GameScene.currentZoneId (GameScene.grid is its grid)
    gameState,      \* GameScene.gameState
    dialogActive,   \* Dialog.active
    inventory,      \* Player.inventory: ids of the items, in pickup order
    moveCooldown,   \* Player.moveCooldown of the current player object
    hook,           \* a listener client code registered on the scene's events
    op,             \* name of the last call
    ret,            \* return value of the last call (for unsubscribe, which
                    \* returns nothing: whether it found a registration)
    log,            \* events emitted by the last call, in order
    interaction,    \* the Interaction rule object under test
    listeners,      \* EventSystem.listeners: type -> ordered callbacks
    invoked,        \* callbacks invoked by the last emit, with the data passed
    reported,       \* listener faults reported (console.error) by that emit
    grids,          \* the Grid objects, by the id of the zone they belong to
    loaded,         \* Zone.entities of a zone whose loadEntities is called
    arg,            \* arguments of the last call on a grid, teleporter or zone
    tagList,        \* the tags array of an entity or tile whose tags are changed
    sinceMove,      \* time elapsed since the player's last successful move,
                    \* counted up to MoveCooldownDuration
    caches,         \* DataManager.tiles, .entities, .zones, .interactions:
                    \* id -> document
    errors,         \* Validator.errors
    server,         \* the index file of each data type, as the server holds it
    fetches,        \* per data type: how far its loadDataFiles has come, the
                    \* files still being fetched, the files fetched, in order
    resolved,       \* whether the promise of loadAll has resolved
    warned,         \* the files and indexes reported as skipped
    npc,            \* the movement state of the NPC of the current zone
    timers,         \* the setTimeout timers of the NPCs that are pending
    discarded,      \* the NPC objects of zones left, no longer in the list
    keysDown,       \* the keys whose Phaser key object reports isDown
    keyStates,      \* InputManager.keyStates
    previousKeyStates,  \* InputManager.previousKeyStates
    dialog,         \* the Dialog object's text, timers and options
    definition,     \* a zone definition as the data manager caches it
    currentZone     \* GameScene.currentZone: the Zone object built from it

sceneVars == <<entities, player, currentZoneId, gameState, dialogActive,
               inventory, moveCooldown, hook>>
busVars   == <<listeners, invoked, reported>>
vars      == <<entities, player, currentZoneId, gameState, dialogActive,
               inventory, moveCooldown, hook, op, ret, log, interaction,
               listeners, invoked, reported, grids, loaded, arg, tagList,
               sinceMove, caches, errors, server, fetches, resolved, warned,
               npc, timers, discarded, keysDown, keyStates,
               previousKeyStates, dialog, definition, currentZone>>
worldVars == <<grids, loaded, arg, tagList>>
loadVars   == <<server, fetches, resolved, warned>>
dataVars   == <<caches, errors, loadVars>>
npcVars    == <<npc, timers, discarded>>
inputVars  == <<keysDown, keyStates, previousKeyStates>>
uiVars     == <<inputVars, dialog>>
refVars    == <<definition, currentZone>>
engineVars == <<sinceMove, dataVars, npcVars, uiVars, refVars>>

-----------------------------------------------------------------------------
(* Bounds of the model *)

GridW == 3
GridH == 2

\* widest and highest Grid object built or loaded from a data document
MaxDim == 2

\* largest grid coordinate converted to world coordinates
MaxCoord == 3

\* longest descriptor list handed to Zone.loadEntities, and most entities
\* a zone holds when it is handed one
MaxDescs == 2

(* Program constants *)

MoveCooldownDuration == 200

\* CONSTANTS.TILE_SIZE
TileSize == 32

-----------------------------------------------------------------------------
(* CONSTANTS.DIRECTIONS, CONSTANTS.EVENTS *)

Directions == {"north", "east", "south", "west"}

\* a value that is not one of the four directions (e.g. a bad pattern entry)
BadDirection == "up"

\* registrations the event system holds at most, over all event types
MaxSubs == 3

\* elapsed tick times handed to update()
Deltas == {100, 200}

NoEvent == [type |-> "-", who |-> "-", target |-> "-", dir |-> "-", zone |-> "-",
            pos |-> <<0, 0>>, via |-> "-"]

Event(type) == [NoEvent EXCEPT !.type = type]

Min(S) == CHOOSE m \in S : \A n \in S : m <= n

-----------------------------------------------------------------------------
(* Tile: the tags a tile gets from its type *)

Tile_new(type, props, tags) ==
    [type  |-> type,
     props |-> props,
     tags  |-> tags \cup
               (CASE type = "grass"      -> {"passable", "natural"}
                  [] type = "forest"     -> {"passable", "natural", "slow"}
                  [] type = "water"      -> {"blocking", "natural", "water"}
                  [] type = "rock"       -> {"blocking", "natural"}
                  [] type = "teleporter" -> {"passable", "teleporter"}
                  [] OTHER               -> {})]

NoProps == [color |-> "default"]

TargetProps(zone, x, y) == [targetZone |-> zone, targetX |-> x, targetY |-> y]

-----------------------------------------------------------------------------
(* The loaded zone definitions (DataManager.zones).  Two zones are loaded; *)
(* "cave" is named by a teleporter but has no definition.                  *)

ZoneIds == {"village", "forest"}

\* DataManager.zones is a plain object, so besides the ids of the loaded
\* documents it answers to the names every object inherits
InheritedNames == {"constructor"}

\* what zones[id] || null finds: a loaded definition, an inherited member
\* (an object without id, width, height, tiles or entities), or null
DataManager_getZone(id) ==
    CASE id \in ZoneIds        -> "definition"
      [] id \in InheritedNames -> "inherited"
      [] OTHER                 -> "null"

\* the tile overrides of a zone document, applied over the default grass
ZoneTile(z, x, y) ==
    CASE z = "village" /\ <<x, y>> = <<1, 0>> -> Tile_new("water", NoProps, {})
      [] z = "village" /\ <<x, y>> = <<0, 1>> ->
             Tile_new("teleporter", TargetProps("cave", 0, 0), {})
      [] z = "village" /\ <<x, y>> = <<2, 1>> ->
             Tile_new("teleporter", TargetProps("forest", 0, 0), {})
      [] z = "forest" /\ <<x, y>> = <<1, 0>> -> Tile_new("forest", NoProps, {})
      [] z = "forest" /\ <<x, y>> = <<2, 0>> -> Tile_new("rock", NoProps, {})
      [] z = "forest" /\ <<x, y>> = <<1, 1>> ->
             Tile_new("teleporter", [targetZone |-> "village", targetY |-> 0], {})
      [] z = "forest" /\ <<x, y>> = <<2, 1>> ->
             Tile_new("teleporter", TargetProps("village", 1, 1), {})
      [] OTHER -> Tile_new("grass", NoProps, {})

NoUse == [type |-> "none", targetZone |-> "-", targetX |-> 0, targetY |-> 0]

\* Entity constructor: the fields the model reads
Entity_new(id, type, x, y, tags, interactable, idirs, pickupable, useEffect, dlg) ==
    [id |-> id, type |-> type, pos |-> <<x, y>>, dir |-> "south", tags |-> tags,
     interactable |-> interactable, idirs |-> idirs,
     pickupable |-> pickupable, useEffect |-> useEffect, dialogOnPickup |-> dlg]

\* Zone.loadEntities over the zone document's entity descriptors
ZoneEntities(z) ==
    IF z = "village"
    THEN << Entity_new("potion", "item", 0, 0, {"item", "collectible"},
                       TRUE, Directions, TRUE,
                       [NoUse EXCEPT !.type = "heal"], FALSE),
            Entity_new("guard", "npc", 2, 0, {"npc", "character", "blocking"},
                       TRUE, Directions, FALSE, NoUse, FALSE),
            Entity_new("rune", "item", 0, 0, {"item", "collectible"},
                       TRUE, Directions, FALSE,
                       [type |-> "teleport", targetZone |-> "cave",
                        targetX |-> 0, targetY |-> 0], FALSE),
            Entity_new("pebble", "item", 0, 0, {"item", "collectible"},
                       TRUE, Directions, FALSE, NoUse, FALSE) >>
    ELSE IF z = "forest"
    THEN << Entity_new("elder", "npc", 0, 1, {"npc", "character", "blocking"},
                       TRUE, {"north", "west"}, FALSE, NoUse, FALSE),
            Entity_new("scroll", "item", 0, 0, {"item", "collectible"},
                       TRUE, Directions, TRUE, NoUse, TRUE),
            Entity_new("gem", "item", 0, 0, {"item", "collectible"},
                       TRUE, Directions, FALSE,
                       [NoUse EXCEPT !.type = "sparkle"], FALSE),
            Entity_new("crate", "furniture", 0, 0, {"furniture"},
                       FALSE, Directions, FALSE, NoUse, FALSE),
            Entity_new("sign", "furniture", 1, 0, {"blocking"},
                       TRUE, {"south"}, FALSE, NoUse, FALSE) >>
    ELSE << >>   \* a zone built from a configuration that lists no entity

-----------------------------------------------------------------------------
(* Grid (of the scene's current zone) *)

Grid_isInBounds(x, y) == x >= 0 /\ x < GridW /\ y >= 0 /\ y < GridH

\* whether getTileAt returns a tile (null when out of bounds)
Grid_hasTileAt(x, y) == Grid_isInBounds(x, y)

Grid_getTileAt(z, x, y) == ZoneTile(z, x, y)

-----------------------------------------------------------------------------
(* Helpers *)

Helpers_hasTag(e, tag) == tag \in e.tags

Helpers_getPositionInFront(e) ==
    CASE e.dir = "north" -> <<e.pos[1], e.pos[2] - 1>>
      [] e.dir = "east"  -> <<e.pos[1] + 1, e.pos[2]>>
      [] e.dir = "south" -> <<e.pos[1], e.pos[2] + 1>>
      [] e.dir = "west"  -> <<e.pos[1] - 1, e.pos[2]>>
      [] OTHER           -> e.pos

-----------------------------------------------------------------------------
(* The scene record the operations work on *)

\* a listener of the scene's events that asks for a zone change: on an
\* event of type on about zone zone it calls changeZone(target, x, y)
NoHook == [on |-> "none", zone |-> "-", target |-> "-", x |-> 0, y |-> 0]

\* detached is the object this.player refers to while it is in no entity
\* list (after loadZone replaced the list)
Scene == [entities |-> entities, player |-> player, zone |-> currentZoneId,
          gameState |-> gameState, dialogActive |-> dialogActive,
          inventory |-> inventory, moveCooldown |-> moveCooldown,
          hook |-> hook,
          detached |-> IF \E i \in 1..Len(entities) : entities[i].id = player
                       THEN entities[CHOOSE i \in 1..Len(entities) :
                                        entities[i].id = player]
                       ELSE [id |-> player],
          log |-> <<>>]

Result(s, r) == [s |-> s, ret |-> r]

\* index of the first list entry satisfying a test; 0 when there is none
\* (Array.find / findIndex)
FirstIndex(S) == IF S = {} THEN 0 ELSE Min(S)

\* GameScene.getEntityAt: the first entity at (x, y), as its list index
GameScene_getEntityAt(ents, x, y) ==
    FirstIndex({i \in 1..Len(ents) : ents[i].pos = <<x, y>>})

\* index of the first entity with the id (findIndex(e => e.id === id))
IndexOfId(ents, id) == FirstIndex({i \in 1..Len(ents) : ents[i].id = id})

RemoveAt(seq, i) == [j \in 1..(Len(seq) - 1) |-> IF j < i THEN seq[j] ELSE seq[j + 1]]

GameScene_removeEntity(ents, id) ==
    LET i == IndexOfId(ents, id) IN IF i = 0 THEN ents ELSE RemoveAt(ents, i)

-----------------------------------------------------------------------------
(* Zone: the zone object keeps its own entity list, filled by loadEntities *)
(* when the zone is constructed (GameScene.loadZone copies it into         *)
(* GameScene.entities); no code adds to it or removes from it afterwards,  *)
(* so it is the list of the zone document.                                 *)

Zone_entities(z) == ZoneEntities(z)

\* Zone.getEntityById: TRUE when the zone's list holds an entity with the id
Zone_hasEntityById(z, id) ==
    \E i \in 1..Len(Zone_entities(z)) : Zone_entities(z)[i].id = id

-----------------------------------------------------------------------------
(* Entity *)

Entity_canPassTile(tile) == Helpers_hasTag(tile, "passable")

Entity_canMoveTo(s, i, x, y) ==
    IF ~Grid_isInBounds(x, y) THEN FALSE
    ELSE IF ~Grid_hasTileAt(x, y)
            \/ ~Entity_canPassTile(Grid_getTileAt(s.zone, x, y)) THEN FALSE
    ELSE LET b == GameScene_getEntityAt(s.entities, x, y) IN
         IF b # 0 /\ Helpers_hasTag(s.entities[b], "blocking") THEN FALSE
         ELSE TRUE

\* mutant: only the x coordinate is written
Entity_moveTo_xOnly(s, i, x, y) ==
    IF ~Entity_canMoveTo(s, i, x, y) THEN Result(s, FALSE)
    ELSE Result([s EXCEPT !.entities[i].pos = <<x, @[2]>>], TRUE)

Entity_moveTo(s, i, x, y) ==
    IF ~Entity_canMoveTo(s, i, x, y) THEN Result(s, FALSE)
    ELSE Result([s EXCEPT !.entities[i].pos = <<x, y>>], TRUE)

Entity_setDirection(s, i, d) ==
    IF d \in Directions THEN [s EXCEPT !.entities[i].dir = d] ELSE s

\* mutant: the entity turns only when the step succeeds
Entity_moveInDirection_turnOnSuccess(s, i, d) ==
    LET p  == s.entities[i].pos
        np == CASE d = "north" -> <<p[1], p[2] - 1>>
                [] d = "east"  -> <<p[1] + 1, p[2]>>
                [] d = "south" -> <<p[1], p[2] + 1>>
                [] d = "west"  -> <<p[1] - 1, p[2]>>
                [] OTHER       -> p
        r  == Entity_moveTo(s, i, np[1], np[2])
    IN  IF r.ret THEN Result(Entity_setDirection(r.s, i, d), TRUE) ELSE r

Entity_moveInDirection(s, i, d) ==
    LET s1 == Entity_setDirection(s, i, d)
        p  == s1.entities[i].pos
        np == CASE d = "north" -> <<p[1], p[2] - 1>>
                [] d = "east"  -> <<p[1] + 1, p[2]>>
                [] d = "south" -> <<p[1], p[2] + 1>>
                [] d = "west"  -> <<p[1] - 1, p[2]>>
                [] OTHER       -> p
    IN  Entity_moveTo(s1, i, np[1], np[2])

\* a value computed once and handed to what follows
Bind(v, Then(_)) == CHOOSE out \in {Then(x) : x \in {v}} : TRUE

Entity_canInteractFrom(e, d) ==
    IF ~e.interactable THEN FALSE ELSE d \in e.idirs

-----------------------------------------------------------------------------------------------------------------------------------------------------
(* The scene's event bus: emit appends to the log and runs the listeners,  *)
(* synchronously: first the ones GameScene.setupEventListeners registers,  *)
(* then the client's.  The scene's own listener of zone_change calls       *)
(* changeZone(data.targetZone, ...); the payloads the scene emits carry    *)
(* zoneId, not targetZone, so that call names no loaded zone and returns   *)
(* after loadZone fails, changing nothing.                                 *)

RECURSIVE GameScene_emit(_, _)
RECURSIVE GameScene_loadZone(_, _)
RECURSIVE GameScene_changeZone(_, _, _, _)

GameScene_emit(s, ev) ==
    LET s1 == [s EXCEPT !.log = Append(@, ev)]
        s2 == CASE ev.type = "dialog_start" -> [s1 EXCEPT !.gameState = "dialog"]
                [] ev.type = "dialog_end"   -> [s1 EXCEPT !.gameState = "playing"]
                [] OTHER                    -> s1
    IN  IF s.hook.on = ev.type /\ s.hook.zone = ev.zone
        THEN GameScene_changeZone(s2, s.hook.target, s.hook.x, s.hook.y)
        ELSE s2

-----
(* Dialog *)

Dialog_complete(s) ==
    IF ~s.dialogActive THEN s
    ELSE GameScene_emit([s EXCEPT !.dialogActive = FALSE], Event("dialog_end"))

Dialog_show(s) ==
    Bind(IF s.dialogActive THEN Dialog_complete(s) ELSE s,
         LAMBDA s1 : GameScene_emit([s1 EXCEPT !.dialogActive = TRUE],
                                    Event("dialog_start")))

-----------------------------------------------------------------------------
(* GameScene: zones *)

\* the object this.player refers to
GameScene_playerObject(s) ==
    IF IndexOfId(s.entities, s.player) # 0
    THEN s.entities[IndexOfId(s.entities, s.player)]
    ELSE s.detached

GameScene_loadZone(s, z) ==
    IF DataManager_getZone(z) = "null" THEN Result(s, FALSE)
    ELSE LET s1 == [s EXCEPT !.zone = z, !.entities = ZoneEntities(z),
                             !.detached = GameScene_playerObject(s)]
         IN  Result(GameScene_emit(s1, [Event("zone-loaded") EXCEPT !.zone = z]),
                    TRUE)

\* the zone change with the player left as it was: the list loadZone built is kept
GameScene_changeZone_listAsLoaded(s, z, tx, ty) ==
    LET Loaded(r) ==
            IF ~r.ret THEN s
            ELSE GameScene_emit(r.s, [Event("zone_change") EXCEPT
                                         !.zone = z, !.who = r.s.player])
    IN  Bind(GameScene_loadZone(s, z), Loaded)

GameScene_changeZone(s, z, tx, ty) ==
    LET playerData == GameScene_playerObject(s)
        Loaded(r) ==
            IF ~r.ret THEN s
            ELSE LET kept == GameScene_removeEntity(r.s.entities, r.s.player)
                     np   == [playerData EXCEPT !.pos = <<tx, ty>>]
                     s2   == [r.s EXCEPT !.entities = Append(kept, np),
                                         !.player = np.id,
                                         !.inventory = <<>>,
                                         !.moveCooldown = 0]
                 IN  GameScene_emit(s2, [Event("zone_change") EXCEPT
                                            !.zone = z, !.who = np.id])
    IN  Bind(GameScene_loadZone(s, z), Loaded)

-----------------------------------------------------------------------------
(* Player *)

Player_getOppositeDirection(d) ==
    CASE d = "north" -> "south"
      [] d = "east"  -> "west"
      [] d = "south" -> "north"
      [] d = "west"  -> "east"
      [] OTHER       -> d

Player_addToInventory(s, item) ==
    GameScene_emit([s EXCEPT !.inventory = Append(@, item.id)],
                   [Event("item_pickup") EXCEPT !.who = s.player,
                                                !.target = item.id])

\* p is the player object the method runs on
Player_checkTeleporter(s, p) ==
    IF ~Grid_hasTileAt(p.pos[1], p.pos[2]) THEN s
    ELSE LET tile == Grid_getTileAt(s.zone, p.pos[1], p.pos[2]) IN
         IF tile.type # "teleporter" THEN s
         ELSE IF /\ "targetZone" \in DOMAIN tile.props
                 /\ tile.props.targetZone # ""
                 /\ "targetX" \in DOMAIN tile.props
                 /\ "targetY" \in DOMAIN tile.props
              THEN GameScene_changeZone(s, tile.props.targetZone,
                                        tile.props.targetX, tile.props.targetY)
              ELSE s

\* mutant: the teleporter check runs before player_move is emitted
Player_move_teleportFirst(s, d) ==
    LET i  == IndexOfId(s.entities, s.player)
        s1 == Entity_setDirection(s, i, d)
        r  == Entity_moveInDirection(s1, i, d)
    IN  IF ~r.ret THEN r
        ELSE LET s2 == [r.s EXCEPT !.moveCooldown = MoveCooldownDuration]
                 p  == s2.entities[i]
                 s3 == Player_checkTeleporter(s2, p)
             IN  Result(GameScene_emit(s3, [Event("player_move") EXCEPT
                                              !.who = p.id, !.pos = p.pos,
                                              !.dir = p.dir]), TRUE)

Player_move(s, d) ==
    LET i  == IndexOfId(s.entities, s.player)
        s1 == Entity_setDirection(s, i, d)
        Moved(r) ==
            IF ~r.ret THEN r
            ELSE LET s2 == [r.s EXCEPT !.moveCooldown = MoveCooldownDuration]
                     p  == s2.entities[i]
                 IN  Bind(GameScene_emit(s2, [Event("player_move") EXCEPT
                                                !.who = p.id, !.pos = p.pos,
                                                !.dir = p.dir]),
                          LAMBDA s3 : Result(Player_checkTeleporter(s3, p), TRUE))
    IN  Bind(Entity_moveInDirection(s1, i, d), Moved)

-----------------------------------------------------------------------------
(* NPC, Item and base Entity: onInteract *)

NPC_onInteract(s, idx, interactor) ==
    IF interactor.type # "player" THEN Result(s, FALSE)
    ELSE Result(Dialog_show(s), TRUE)

Item_onPickup(s, idx, interactor) ==
    IF interactor.type # "player" THEN Result(s, FALSE)
    ELSE LET item == s.entities[idx]
             Shown(s1) == IF item.dialogOnPickup THEN Dialog_show(s1) ELSE s1
         IN  Bind(Bind(Player_addToInventory(s, item), Shown),
                  LAMBDA s2 : Result([s2 EXCEPT !.entities =
                                 GameScene_removeEntity(s2.entities, item.id)],
                                     TRUE))

Item_onUse(s, idx, user) ==
    LET item == s.entities[idx]
        use  == item.useEffect
    IN  CASE use.type = "none"  -> Result(s, FALSE)
          [] use.type = "heal"  -> Result(s, FALSE)   \* no entity has a health field
          [] use.type = "teleport" ->
                IF use.targetZone # ""
                THEN Result(GameScene_changeZone(s, use.targetZone,
                                                 use.targetX, use.targetY), TRUE)
                ELSE Result(s, FALSE)
          [] use.type = "dialog" -> Result(Dialog_show(s), TRUE)
          [] OTHER -> Result(GameScene_emit(s, [Event("item-use") EXCEPT
                                !.who = user.id, !.target = item.id]), TRUE)

\* onInteract that looks at the use effect before the pickup
Item_onInteract_useFirst(s, idx, interactor) ==
    IF interactor.type # "player" THEN Result(s, FALSE)
    ELSE IF s.entities[idx].useEffect.type # "none" THEN Item_onUse(s, idx, interactor)
    ELSE IF s.entities[idx].pickupable THEN Item_onPickup(s, idx, interactor)
    ELSE Result(s, FALSE)

Item_onInteract(s, idx, interactor) ==
    IF interactor.type # "player" THEN Result(s, FALSE)
    ELSE IF s.entities[idx].pickupable THEN Item_onPickup(s, idx, interactor)
    ELSE IF s.entities[idx].useEffect.type # "none" THEN Item_onUse(s, idx, interactor)
    ELSE Result(s, FALSE)

\* the onInteract of the class Zone.loadEntities built the entity with
Entity_onInteract(s, idx, interactor) ==
    CASE s.entities[idx].type = "npc"  -> NPC_onInteract(s, idx, interactor)
      [] s.entities[idx].type = "item" -> Item_onInteract(s, idx, interactor)
      [] OTHER                         -> Result(s, FALSE)

\* mutant: the direction the target accepts is not consulted
Player_interact_anyDirection(s) ==
    LET p        == s.entities[IndexOfId(s.entities, s.player)]
        frontPos == Helpers_getPositionInFront(p)
        idx      == GameScene_getEntityAt(s.entities, frontPos[1], frontPos[2])
    IN  IF idx = 0 \/ ~s.entities[idx].interactable THEN Result(s, FALSE)
        ELSE LET target == s.entities[idx]
                 r == Entity_onInteract(s, idx, p)
             IN  IF ~r.ret THEN Result(r.s, FALSE)
                 ELSE Result(GameScene_emit(r.s,
                                [Event("player_interact") EXCEPT
                                   !.who = p.id, !.target = target.id,
                                   !.dir = p.dir]), TRUE)

Player_interact(s) ==
    LET p        == s.entities[IndexOfId(s.entities, s.player)]
        frontPos == Helpers_getPositionInFront(p)
        idx      == GameScene_getEntityAt(s.entities, frontPos[1], frontPos[2])
    IN  IF idx = 0 \/ ~s.entities[idx].interactable THEN Result(s, FALSE)
        ELSE LET interactDirection == Player_getOppositeDirection(p.dir) IN
             IF ~Entity_canInteractFrom(s.entities[idx], interactDirection)
             THEN Result(s, FALSE)
             ELSE LET target == s.entities[idx]
                      Answered(r) ==
                          IF ~r.ret THEN Result(r.s, FALSE)
                          ELSE Result(GameScene_emit(r.s,
                                         [Event("player_interact") EXCEPT
                                            !.who = p.id, !.target = target.id,
                                            !.dir = p.dir]), TRUE)
                  IN  Bind(Entity_onInteract(s, idx, p), Answered)

Player_update(s, delta) ==
    IF s.moveCooldown > 0 THEN [s EXCEPT !.moveCooldown = @ - delta] ELSE s

\* CONSTANTS.KEYS the player reads
Keys == {"UP", "RIGHT", "DOWN", "LEFT", "INTERACT"}

\* the direction handleInput's chain of tests picks for the keys held
Player_heldDirection(keys) ==
    IF "UP" \in keys THEN "north"
    ELSE IF "RIGHT" \in keys THEN "east"
    ELSE IF "DOWN" \in keys THEN "south"
    ELSE IF "LEFT" \in keys THEN "west"
    ELSE "none"

\* interact() of the player object p, which a zone change during the same
\* handleInput call has replaced in the scene: p keeps its old position and
\* looks at the entities of the zone the scene now shows; what it picks up
\* goes to its own inventory, not to the inventory of the scene's player
Player_interactAs(s, p) ==
    LET frontPos == Helpers_getPositionInFront(p)
        idx      == GameScene_getEntityAt(s.entities, frontPos[1], frontPos[2])
    IN  IF idx = 0 \/ ~s.entities[idx].interactable THEN Result(s, FALSE)
        ELSE LET interactDirection == Player_getOppositeDirection(p.dir) IN
             IF ~Entity_canInteractFrom(s.entities[idx], interactDirection)
             THEN Result(s, FALSE)
             ELSE LET target == s.entities[idx]
                      Answered(r) ==
                          LET s1 == [r.s EXCEPT !.inventory = s.inventory]
                          IN  IF ~r.ret THEN Result(s1, FALSE)
                              ELSE Result(GameScene_emit(s1,
                                             [Event("player_interact") EXCEPT
                                                !.who = p.id, !.target = target.id,
                                                !.dir = p.dir]), TRUE)
                  IN  Bind(Entity_onInteract(s, idx, p), Answered)

NoAttempt == [move |-> "none", moved |-> FALSE, interact |-> FALSE]

\* The value returned records what the call attempted: the direction of the
\* move it called (or "none"), whether that move succeeded, and whether it
\* called interact().
Player_handleInput(s, keys) ==
    IF s.moveCooldown > 0 THEN Result(s, NoAttempt)
    ELSE LET d    == Player_heldDirection(keys)
             i    == IndexOfId(s.entities, s.player)
             \* the object the call runs on, as the move left it
             this == IF d = "none" THEN s.entities[i]
                     ELSE Entity_moveInDirection(Entity_setDirection(s, i, d),
                                                 i, d).s.entities[i]
             Replaced(m) ==
                 \E k \in 1..Len(m.s.log) : m.s.log[k].type = "zone_change"
             Interact(m) ==
                 IF "INTERACT" \notin keys THEN m.s
                 ELSE IF Replaced(m) THEN Player_interactAs(m.s, this).s
                 ELSE Player_interact(m.s).s
         IN  Bind(IF d = "none" THEN Result(s, FALSE) ELSE Player_move(s, d),
                  LAMBDA m : Result(Interact(m),
                                    [move |-> d, moved |-> m.ret,
                                     interact |-> "INTERACT" \in keys]))

-----------------------------------------------------------------------------
(* Interaction *)

\* the target handed to execute: an entity of the scene, or null
NoTarget == 0

Helpers_hasAllTags(ents, target, requiredTags) ==
    IF target = NoTarget THEN FALSE
    ELSE \A tag \in requiredTags : tag \in ents[target].tags

\* the configurations Interaction's constructor is given; omitted fields
\* default to no required tags, all directions and the empty event type
Interaction_new(requiredTags, directions, eventType) ==
    [id |-> "talk", requiredTags |-> requiredTags, directions |-> directions,
     eventType |-> eventType]

InteractionConfigs ==
    {Interaction_new(tags, dirs, type) :
        tags \in SUBSET {"character", "npc"},
        dirs \in {{"north", "south"}, Directions, {}},
        type \in {"talk", ""}}

Interaction_canInteractWith(it, ents, target) ==
    Helpers_hasAllTags(ents, target, it.requiredTags)

Interaction_isValidDirection(it, d) == d \in it.directions

\* mutant: the direction is not checked
Interaction_execute_anyDirection(s, it, source, target, d) ==
    IF ~Interaction_canInteractWith(it, s.entities, target) THEN Result(s, FALSE)
    ELSE Result(GameScene_emit(s, [Event(it.eventType) EXCEPT
                    !.who = s.entities[source].id,
                    !.target = s.entities[target].id,
                    !.dir = d, !.via = it.id]), TRUE)

Interaction_execute(s, it, source, target, d) ==
    IF ~Interaction_canInteractWith(it, s.entities, target) THEN Result(s, FALSE)
    ELSE IF ~Interaction_isValidDirection(it, d) THEN Result(s, FALSE)
    ELSE Result(GameScene_emit(s, [Event(it.eventType) EXCEPT
                    !.who = s.entities[source].id,
                    !.target = s.entities[target].id,
                    !.dir = d, !.via = it.id]), TRUE)

-----------------------------------------------------------------------------
(* EventSystem *)

EventTypes == {"a", "b"}

\* the callbacks handed to subscribe: f returns, h throws, u unsubscribes
\* itself and returns, x unsubscribes itself and throws
Callbacks == {"f", "h", "u", "x"}

Throwing(cb) == cb \in {"h", "x"}

Unsubscribing(cb) == cb \in {"u", "x"}

EventData == {1, 2}

\* Array.indexOf: index of the first occurrence, 0 when absent
IndexOf(seq, cb) == FirstIndex({k \in 1..Len(seq) : seq[k] = cb})

EventSystem_subscribe(ls, type, cb) == [ls EXCEPT ![type] = Append(@, cb)]

\* mutant: every registration of the callback is removed
EventSystem_unsubscribe_all(ls, type, cb) ==
    [ls EXCEPT ![type] = SelectSeq(@, LAMBDA c : c # cb)]

EventSystem_unsubscribe(ls, type, cb) ==
    LET index == IndexOf(ls[type], cb)
    IN  IF index = 0 THEN ls ELSE [ls EXCEPT ![type] = RemoveAt(@, index)]

\* Array.forEach over listeners[type], from index i: the length n is read
\* once when forEach starts, the elements are read from the live array and
\* an index the array no longer has is passed over.  st holds the
\* listeners, the invocations and the reported faults so far.
RECURSIVE EventSystem_forEach(_, _, _, _, _)
EventSystem_forEach(st, type, data, i, n) ==
    IF i > n THEN st
    ELSE IF i > Len(st.listeners[type])
    THEN EventSystem_forEach(st, type, data, i + 1, n)
    ELSE LET cb == st.listeners[type][i]
             ls == IF Unsubscribing(cb)
                   THEN EventSystem_unsubscribe(st.listeners, type, cb)
                   ELSE st.listeners
             st1 == [listeners |-> ls,
                     invoked   |-> Append(st.invoked, [cb |-> cb, data |-> data]),
                     reported  |-> IF Throwing(cb) THEN Append(st.reported, cb)
                                   ELSE st.reported]
         IN  EventSystem_forEach(st1, type, data, i + 1, n)

EventSystem_emit(ls, type, data) ==
    EventSystem_forEach([listeners |-> ls, invoked |-> <<>>, reported |-> <<>>],
                        type, data, 1, Len(ls[type]))

-----------------------------------------------------------------------------
(* Grid: the grid object with its stored rows.  tiles is the array of rows *)
(* (row y of the code is tiles[y + 1]), as the code last built it; width   *)
(* and height are the fields isInBounds reads.                             *)

\* the result of getTileAt out of bounds, and of reading an array element
\* that was never stored
NullTile    == [type |-> "null", props |-> NoProps, tags |-> {}]
MissingTile == [type |-> "undefined", props |-> NoProps, tags |-> {}]

Grid_reset(g) ==
    [g EXCEPT !.tiles =
        [y \in 1..g.height |->
            [x \in 1..g.width |-> Tile_new(g.defaultTileType, NoProps, {})]]]

\* Grid constructor, with the width, height, tile size and default tile
\* type of its configuration
Grid_new(width, height, tileSize, defaultTileType) ==
    Grid_reset([width |-> width, height |-> height, tileSize |-> tileSize,
                defaultTileType |-> defaultTileType, tiles |-> <<>>])

Grid_isInBoundsOf(g, x, y) == x >= 0 /\ x < g.width /\ y >= 0 /\ y < g.height

\* whether the rows hold an element for the cell
Grid_stores(g, x, y) ==
    /\ y + 1 \in DOMAIN g.tiles
    /\ x + 1 \in DOMAIN g.tiles[y + 1]

Grid_tileAt(g, x, y) ==
    IF ~Grid_isInBoundsOf(g, x, y) THEN NullTile
    ELSE IF Grid_stores(g, x, y) THEN g.tiles[y + 1][x + 1]
    ELSE MissingTile

\* setTileAt: the grid after the call and the value returned.  In bounds
\* the element is assigned; an element the rows do not hold is assigned
\* only when the rows do hold the cell.
Grid_setTileAt(g, x, y, tile) ==
    IF ~Grid_isInBoundsOf(g, x, y) THEN [grid |-> g, ret |-> FALSE]
    ELSE IF Grid_stores(g, x, y)
         THEN [grid |-> [g EXCEPT !.tiles[y + 1][x + 1] = tile], ret |-> TRUE]
         ELSE [grid |-> g, ret |-> TRUE]

\* a field of a data document is given or undefined
Has(d, k) == k \in d.given

\* the forEach over data.tiles
RECURSIVE Grid_loadTiles(_, _)
Grid_loadTiles(g, list) ==
    IF list = <<>> THEN g
    ELSE LET t == Head(list)
             g1 == IF Has(t, "x") /\ Has(t, "y") /\ Has(t, "type")
                   THEN Grid_setTileAt(g, t.x, t.y,
                            Tile_new(t.type,
                                     IF Has(t, "properties") THEN t.properties
                                     ELSE NoProps, {})).grid
                   ELSE g
         IN  Grid_loadTiles(g1, Tail(list))

\* the second reset of loadFromData is left out
Grid_loadFromData_noResize(g, d) ==
    LET g1 == Grid_reset(g)
        g2 == [g1 EXCEPT
                 !.width  = IF Has(d, "width") THEN d.width ELSE @,
                 !.height = IF Has(d, "height") THEN d.height ELSE @,
                 !.defaultTileType =
                     IF Has(d, "defaultTile") THEN d.defaultTile ELSE @]
    IN  IF Has(d, "tiles") THEN Grid_loadTiles(g2, d.tiles) ELSE g2

Grid_loadFromData(g, d) ==
    LET g1 == Grid_reset(g)
        g2 == [g1 EXCEPT
                 !.width  = IF Has(d, "width") THEN d.width ELSE @,
                 !.height = IF Has(d, "height") THEN d.height ELSE @,
                 !.defaultTileType =
                     IF Has(d, "defaultTile") THEN d.defaultTile ELSE @]
        g3 == IF \/ Len(g2.tiles) # g2.height
                 \/ (Len(g2.tiles) > 0 /\ Len(g2.tiles[1]) # g2.width)
              THEN Grid_reset(g2)
              ELSE g2
    IN  IF Has(d, "tiles") THEN Grid_loadTiles(g3, d.tiles) ELSE g3

\* gridToWorld with the first cell at one tile size
Grid_gridToWorld_oneBased(g, x, y) ==
    [x |-> (x + 1) * g.tileSize, y |-> (y + 1) * g.tileSize]

Grid_gridToWorld(g, x, y) == [x |-> x * g.tileSize, y |-> y * g.tileSize]

\* Math.floor of the quotient
Grid_worldToGrid(g, wx, wy) == [x |-> wx \div g.tileSize, y |-> wy \div g.tileSize]

-----------------------------------------------------------------------------
(* Tags: the tags array of a tile or an entity, in the order of the array *)

\* the tags the Tile constructor appends for the type
Tile_defaultTags(type) ==
    CASE type = "grass"      -> <<"passable", "natural">>
      [] type = "forest"     -> <<"passable", "natural", "slow">>
      [] type = "water"      -> <<"blocking", "natural", "water">>
      [] type = "rock"       -> <<"blocking", "natural">>
      [] type = "teleporter" -> <<"passable", "teleporter">>
      [] OTHER               -> <<>>

\* Tile constructor: the tags of the configuration, then the type's
Tile_tags(type, tags) == tags \o Tile_defaultTags(type)

\* Array.includes, Array.indexOf (0 when absent; the code's -1)
Tags_has(tags, tag) == \E i \in 1..Len(tags) : tags[i] = tag

Tags_indexOf(tags, tag) ==
    IF Tags_has(tags, tag) THEN Min({i \in 1..Len(tags) : tags[i] = tag}) ELSE 0

Tags_addTag(tags, tag) == IF ~Tags_has(tags, tag) THEN Append(tags, tag) ELSE tags

Tags_removeTag(tags, tag) ==
    LET index == Tags_indexOf(tags, tag)
    IN  IF index # 0
        THEN SubSeq(tags, 1, index - 1) \o SubSeq(tags, index + 1, Len(tags))
        ELSE tags

-----------------------------------------------------------------------------
(* Teleporter *)

\* object spread {...a, ...b}: the keys of both, b's value where both have one
Spread(a, b) ==
    [k \in DOMAIN a \cup DOMAIN b |-> IF k \in DOMAIN b THEN b[k] ELSE a[k]]

Teleporter_new(sourceZone, sx, sy, targetZone, tx, ty, isActive, properties) ==
    [sourceZone |-> sourceZone, sourceX |-> sx, sourceY |-> sy,
     targetZone |-> targetZone, targetX |-> tx, targetY |-> ty,
     isActive |-> isActive, properties |-> properties]

\* the tile placeInGrid builds
Teleporter_tile(t) ==
    Tile_new("teleporter",
             Spread([targetZone |-> t.targetZone, targetX |-> t.targetX,
                     targetY |-> t.targetY, isActive |-> t.isActive],
                    t.properties),
             {"teleporter", "passable"})

\* the grid argument that is no grid
NoGrid == "none"

\* placeInGrid without its own bounds test, reporting success
Teleporter_placeInGrid_alwaysTrue(t, gs, id) ==
    IF id = NoGrid THEN [grids |-> gs, ret |-> FALSE]
    ELSE LET r == Grid_setTileAt(gs[id], t.sourceX, t.sourceY, Teleporter_tile(t))
         IN  [grids |-> [gs EXCEPT ![id] = r.grid], ret |-> TRUE]

\* placeInGrid on the grid named id of the grids gs (NoGrid: no grid is
\* passed): the grids after the call and the value returned
Teleporter_placeInGrid(t, gs, id) ==
    IF id = NoGrid THEN [grids |-> gs, ret |-> FALSE]
    ELSE IF ~Grid_isInBoundsOf(gs[id], t.sourceX, t.sourceY)
         THEN [grids |-> gs, ret |-> FALSE]
         ELSE LET r == Grid_setTileAt(gs[id], t.sourceX, t.sourceY,
                                      Teleporter_tile(t))
              IN  [grids |-> [gs EXCEPT ![id] = r.grid], ret |-> r.ret]

\* createLinkedTeleporter on the grids named sourceGrid and targetGrid: the
\* grids after the call and the return teleporter
Teleporter_createLinkedTeleporter(t, gs, sourceGrid, targetGrid) ==
    LET placed == Teleporter_placeInGrid(t, gs, sourceGrid).grids
        back   == Teleporter_new(t.targetZone, t.targetX, t.targetY,
                                 t.sourceZone, t.sourceX, t.sourceY,
                                 t.isActive, t.properties)
    IN  [grids |-> Teleporter_placeInGrid(back, placed, targetGrid).grids,
         ret   |-> back]

-----------------------------------------------------------------------------
(* Zone.loadEntities: the entity list after the call.  An entity is its    *)
(* id, the class constructed and its type and position.                    *)

Zone_construct(class, d) == [id |-> d.id, class |-> class, type |-> d.type,
                             x |-> d.x, y |-> d.y]

\* loadEntities that stops at the first descriptor it skips
RECURSIVE Zone_loadEntities_stopAtSkipped(_, _)
Zone_loadEntities_stopAtSkipped(list, data) ==
    IF data = <<>> THEN list
    ELSE LET d == Head(data)
         IN  IF ~(Has(d, "type") /\ Has(d, "x") /\ Has(d, "y")) THEN list
             ELSE Zone_loadEntities_stopAtSkipped(
                      CASE d.type = "player" -> list
                        [] d.type = "npc"    -> Append(list, Zone_construct("NPC", d))
                        [] d.type = "item"   -> Append(list, Zone_construct("Item", d))
                        [] OTHER             -> Append(list, Zone_construct("Entity", d)),
                      Tail(data))

RECURSIVE Zone_loadEntities(_, _)
Zone_loadEntities(list, data) ==
    IF data = <<>> THEN list
    ELSE LET d == Head(data)
             next == IF ~(Has(d, "type") /\ Has(d, "x") /\ Has(d, "y")) THEN list
                     ELSE CASE d.type = "player" -> list
                            [] d.type = "npc"    -> Append(list, Zone_construct("NPC", d))
                            [] d.type = "item"   -> Append(list, Zone_construct("Item", d))
                            [] OTHER             -> Append(list, Zone_construct("Entity", d))
         IN  Zone_loadEntities(next, Tail(data))

-----------------------------------------------------------------------------
(* The scene after GameScene.create: the initial zone loaded, the player   *)
(* created at (1, 1) facing south and appended to the entity list.         *)

ThePlayer == Entity_new("player", "player", 1, 1, {"player", "character"},
                        FALSE, Directions, FALSE, NoUse, FALSE)

InitScene ==
    /\ currentZoneId \in ZoneIds
    /\ entities = Append(ZoneEntities(currentZoneId), ThePlayer)
    /\ player = ThePlayer.id
    /\ gameState = "playing"
    /\ dialogActive = FALSE
    /\ inventory = <<>>
    /\ moveCooldown = 0

IdleInteraction ==
    [id |-> "-", requiredTags |-> {}, directions |-> Directions, eventType |-> ""]

IdleBus ==
    /\ listeners = [t \in EventTypes |-> <<>>]
    /\ invoked = <<>>
    /\ reported = <<>>

\* The grids of two zones as their Zone objects construct them, and a zone
\* with no entity loaded yet.
GridZones == {"zoneA", "zoneB"}

IdleGrids ==
    [z \in GridZones |->
        Grid_new(MaxDim, IF z = "zoneA" THEN MaxDim ELSE 1, TileSize, "grass")]

\* a cache of the data manager with no document in it
NoDocs == [id \in {} |-> 0]

\* the data types loadAll loads
LoadTypes == {"tile", "entity", "zone", "interaction"}

\* an index file that is missing, is not JSON or has no files array
NoIndex == [ok |-> FALSE, files |-> {}]

\* a loadDataFiles that has not been called
NotStarted == [phase |-> "-", pending |-> {}, fetched |-> <<>>]

\* null, for NPC.moveTimer
NoTimer == 0

\* CONSTANTS.KEYS: the value of each member is the letter of its key
KeyBinding == [UP |-> "W", DOWN |-> "S", LEFT |-> "A", RIGHT |-> "D",
               INTERACT |-> "E"]

\* the keys setupKeys adds, named by their letter (W is key code 87, S 83,
\* A 65, D 68, E 69)
Letters == {"W", "S", "A", "D", "E"}

\* the property names keyStates and previousKeyStates can have: the ones
\* setupKeys stores (keyMapping is keyed by the values of CONSTANTS.KEYS)
\* and the ones handleKeyDown and handleKeyUp store (getKeyConstant)
StateNames == Letters \cup DOMAIN KeyBinding

\* InputManager after its constructor
NoKeyStates == [n \in StateNames |-> IF n \in Letters THEN "false" ELSE "undefined"]

\* Dialog after its constructor: content is '' (length 0), no timer is set
NoDialog == [length |-> 0, letterIndex |-> 0, textTimer |-> FALSE,
             closeTimer |-> FALSE, waitForInput |-> TRUE, onComplete |-> "none"]

\* no zone definition looked at, no Zone object built from one
IdleRefs ==
    /\ definition = << >>
    /\ currentZone = << >>

IdleUi ==
    /\ keysDown = {}
    /\ keyStates = NoKeyStates
    /\ previousKeyStates = NoKeyStates
    /\ dialog = NoDialog

\* an NPC built without movement: no pattern, no timer
StaticNpc ==
    [movement |-> "none", movementPattern |-> <<>>, currentPatternIndex |-> 0,
     moveTimer |-> NoTimer, moveCooldown |-> 0]

\* no move of the player yet (the last one is as long ago as can be
\* counted), nothing loaded into the data manager, no validation error,
\* NPCs without movement
IdleEngine ==
    /\ sinceMove = MoveCooldownDuration
    /\ caches = [t \in LoadTypes |-> NoDocs]
    /\ errors = <<>>
    /\ server = [t \in LoadTypes |-> NoIndex]
    /\ fetches = [t \in LoadTypes |-> NotStarted]
    /\ resolved = FALSE
    /\ warned = {}
    /\ npc = StaticNpc
    /\ timers = {}
    /\ discarded = <<>>
    /\ IdleUi
    /\ IdleRefs

IdleWorld ==
    /\ grids = IdleGrids
    /\ loaded = <<>>
    /\ arg = <<>>
    /\ tagList = <<>>
    /\ IdleEngine

Init ==
    /\ InitScene
    /\ hook = NoHook
    /\ op = "create"
    /\ ret = FALSE
    /\ log = <<>>
    /\ interaction = IdleInteraction
    /\ IdleBus
    /\ IdleWorld

Commit(s, o, r) ==
    /\ entities' = s.entities
    /\ player' = s.player
    /\ currentZoneId' = s.zone
    /\ gameState' = s.gameState
    /\ dialogActive' = s.dialogActive
    /\ inventory' = s.inventory
    /\ moveCooldown' = s.moveCooldown
    /\ hook' = s.hook
    /\ log' = s.log
    /\ op' = o
    /\ ret' = r
    /\ UNCHANGED <<interaction, busVars, worldVars, engineVars>>

\* the entities that move: the player and the NPCs
Movers == {i \in 1..Len(entities) : entities[i].type \in {"player", "npc"}}

MoveTo(i, x, y) ==
    LET r == Entity_moveTo(Scene, i, x, y) IN Commit(r.s, "moveTo", r.ret)

MoveInDirection(i, d) ==
    LET r == Entity_moveInDirection(Scene, i, d)
    IN  Commit(r.s, "moveInDirection", r.ret)

PlayerMove(d) ==
    LET r == Player_move(Scene, d) IN Commit(r.s, "move", r.ret)

PlayerInteract ==
    LET r == Player_interact(Scene) IN Commit(r.s, "interact", r.ret)

DialogComplete ==
    /\ dialogActive
    /\ Commit(Dialog_complete(Scene), "complete", FALSE)

PlayerUpdate(delta) ==
    /\ moveCooldown > 0
    /\ Commit(Player_update(Scene, delta), "update", FALSE)

\* the NPCs, whose movement timers call moveInDirection
Npcs == {i \in 1..Len(entities) : entities[i].type = "npc"}

NpcMove(i, d) ==
    LET r == Entity_moveInDirection(Scene, i, d)
    IN  Commit(r.s, "npcMove", r.ret)

(* Game play: the player's moves and interactions, the NPCs' moves, the    *)
(* dialog being closed, the player's update.                               *)
Next ==
    \/ \E d \in Directions \cup {BadDirection} : PlayerMove(d)
    \/ PlayerInteract
    \/ \E i \in Npcs, d \in Directions \cup {BadDirection} : NpcMove(i, d)
    \/ DialogComplete
    \/ \E delta \in Deltas : PlayerUpdate(delta)

Spec == Init /\ [][Next]_vars

(* The Entity movement interface called directly, by the player and NPCs.  *)
NextMove ==
    \/ \E i \in Movers, x \in -1..GridW, y \in -1..GridH : MoveTo(i, x, y)
    \/ \E i \in Movers, d \in Directions \cup {BadDirection} : MoveInDirection(i, d)

SpecMove == Init /\ [][NextMove]_vars

(* Entity.moveTo called by the player and the NPCs with any target, after  *)
(* any turns the player made with Entity.setDirection.                     *)
SetDirection(i, d) ==
    Commit(Entity_setDirection(Scene, i, d), "setDirection", FALSE)

NextMoveTo ==
    \/ \E i \in Movers, x \in -1..GridW, y \in -1..GridH : MoveTo(i, x, y)
    \/ \E d \in Directions \cup {BadDirection} :
          SetDirection(IndexOfId(entities, player), d)

SpecMoveTo == Init /\ [][NextMoveTo]_vars

(* Zone changes requested directly and by teleporter tiles, with a client  *)
(* listener that asks for a zone change from inside an event.              *)

\* a zone id without a loaded definition
UnknownZone == "cave"

\* the listeners: on zone-loaded or zone_change for one zone, ask for the
\* other zone at (0, 0)
Hooks ==
    {NoHook} \cup
    {h \in {[on |-> e, zone |-> a, target |-> b, x |-> 0, y |-> 0] :
                e \in {"zone-loaded", "zone_change"},
                a \in ZoneIds, b \in ZoneIds} : h.zone # h.target}

TargetCells == (0..(GridW - 1)) \X (0..(GridH - 1))

InitZone ==
    /\ InitScene
    /\ hook \in Hooks
    /\ op = "create"
    /\ ret = FALSE
    /\ log = <<>>
    /\ interaction = IdleInteraction
    /\ IdleBus
    /\ IdleWorld

ChangeZone(z, tx, ty) ==
    Commit(GameScene_changeZone(Scene, z, tx, ty), "changeZone", FALSE)

NextZone ==
    \/ \E z \in ZoneIds \cup {UnknownZone}, c \in TargetCells :
          ChangeZone(z, c[1], c[2])
    \/ \E d \in Directions : PlayerMove(d)
    \/ PlayerInteract

SpecZone == InitZone /\ [][NextZone]_vars

(* Interaction.execute called on a rule object built from a configuration. *)
InitInteraction ==
    /\ InitScene
    /\ hook = NoHook
    /\ op = "create"
    /\ ret = FALSE
    /\ log = <<>>
    /\ interaction \in InteractionConfigs
    /\ IdleBus
    /\ IdleWorld

Execute(source, target, d) ==
    LET r == Interaction_execute(Scene, interaction, source, target, d)
    IN  /\ Commit(r.s, "execute", r.ret)

NextInteraction ==
    \E target \in {NoTarget} \cup (1..Len(entities)), d \in Directions \cup {BadDirection} :
        Execute(IndexOfId(entities, player), target, d)

SpecInteraction == InitInteraction /\ [][NextInteraction]_vars

(* The EventSystem called directly: subscribe, unsubscribe (also through   *)
(* the function subscribe returned, which calls unsubscribe with the same  *)
(* type and callback), emit.                                               *)
Registrations == Len(listeners["a"]) + Len(listeners["b"])

Subscribe(type, cb) ==
    /\ Registrations < MaxSubs
    /\ listeners' = EventSystem_subscribe(listeners, type, cb)
    /\ invoked' = <<>>
    /\ reported' = <<>>
    /\ op' = "subscribe"
    /\ ret' = FALSE
    /\ UNCHANGED <<sceneVars, log, interaction, worldVars, engineVars>>

Unsubscribe(type, cb) ==
    /\ listeners' = EventSystem_unsubscribe(listeners, type, cb)
    /\ invoked' = <<>>
    /\ reported' = <<>>
    /\ op' = "unsubscribe"
    /\ ret' = (IndexOf(listeners[type], cb) # 0)   \* a registration was found
    /\ UNCHANGED <<sceneVars, log, interaction, worldVars, engineVars>>

Emit(type, data) ==
    LET st == EventSystem_emit(listeners, type, data)
    IN  /\ listeners' = st.listeners
        /\ invoked' = st.invoked
        /\ reported' = st.reported
        /\ op' = "emit"
        /\ ret' = FALSE
        /\ UNCHANGED <<sceneVars, log, interaction, worldVars, engineVars>>

NextEvents ==
    \/ \E type \in EventTypes, cb \in Callbacks : Subscribe(type, cb)
    \/ \E type \in EventTypes, cb \in Callbacks : Unsubscribe(type, cb)
    \/ \E type \in EventTypes, data \in EventData : Emit(type, data)

SpecEvents == Init /\ [][NextEvents]_vars

(* The state after a call on a grid, a teleporter or a zone's entity list. *)
World(o, a, r, gs, list) ==
    /\ op' = o
    /\ arg' = a
    /\ ret' = r
    /\ grids' = gs
    /\ loaded' = list
    /\ UNCHANGED <<sceneVars, log, interaction, busVars, tagList, engineVars>>

(* A Grid object: reset, loadFromData with any data document, setTileAt.   *)
(* The grid is zoneA's.                                                     *)

TheGrid == grids["zoneA"]

\* the entries of data.tiles: fields x, y, type, properties, each given or not
Override(given, x, y, type, properties) ==
    [given |-> given, x |-> x, y |-> y, type |-> type, properties |-> properties]

RockAtOrigin   == Override({"x", "y", "type"}, 0, 0, "rock", NoProps)
ForestAtOrigin == Override({"x", "y", "type"}, 0, 0, "forest", NoProps)
DoorBeside     == Override({"x", "y", "type", "properties"}, 1, 0, "teleporter",
                           TargetProps("zoneB", 0, 0))
WaterBelow     == Override({"x", "y", "type"}, 0, 1, "water", NoProps)
RockOutside    == Override({"x", "y", "type"}, MaxDim, 0, "rock", NoProps)
NoXGiven       == Override({"y", "type"}, 0, 0, "rock", NoProps)
NoTypeGiven    == Override({"x", "y"}, 0, 1, "grass", NoProps)

TileLists ==
    { <<>>, <<RockAtOrigin, DoorBeside>>, <<RockOutside, WaterBelow>>,
      <<NoXGiven, NoTypeGiven, RockAtOrigin, ForestAtOrigin>> }

\* the data documents: width, height and defaultTile given or not (a value
\* that is not given is written -1 or "undefined"), tiles given or not
DataDocs ==
    {d \in {[given |-> (IF w >= 0 THEN {"width"} ELSE {}) \cup
                       (IF h >= 0 THEN {"height"} ELSE {}) \cup
                       (IF dt # "undefined" THEN {"defaultTile"} ELSE {}) \cup
                       (IF tg THEN {"tiles"} ELSE {}),
             width |-> w, height |-> h, defaultTile |-> dt, tiles |-> tl] :
                w \in {-1} \cup (1..MaxDim), h \in -1..MaxDim,
                dt \in {"undefined", "grass", "water"},
                tg \in BOOLEAN, tl \in TileLists} :
        Has(d, "tiles") \/ d.tiles = <<>>}

InitGrid ==
    /\ InitScene
    /\ hook = NoHook
    /\ op = "create"
    /\ ret = FALSE
    /\ log = <<>>
    /\ interaction = IdleInteraction
    /\ IdleBus
    /\ \E dt \in {"grass", "water"} :
          grids = [IdleGrids EXCEPT !["zoneA"] = Grid_new(MaxDim, MaxDim, TileSize, dt)]
    /\ loaded = <<>>
    /\ arg = <<>>
    /\ tagList = <<>>
    /\ IdleEngine

Reset ==
    World("reset", <<>>, FALSE, [grids EXCEPT !["zoneA"] = Grid_reset(@)], loaded)

LoadFromData(d) ==
    World("loadFromData", d, FALSE,
          [grids EXCEPT !["zoneA"] = Grid_loadFromData(@, d)], loaded)

\* the tile client code sets
ManualTile == Tile_new("lava", NoProps, {})

\* client code sets one tile of a grid by hand
HasManualTile ==
    \E x \in 0..(MaxDim - 1), y \in 0..(MaxDim - 1) :
        Grid_tileAt(TheGrid, x, y) = ManualTile

\* the cells set by hand: two that a grid may hold, two that none holds
ManualCells == {<<0, 0>>, <<MaxDim - 1, MaxDim - 1>>, <<MaxDim, 0>>, <<0, -1>>}

SetTileAt(x, y) ==
    /\ ~HasManualTile
    /\ LET r == Grid_setTileAt(TheGrid, x, y, ManualTile)
       IN  World("setTileAt", <<x, y>>, r.ret,
                 [grids EXCEPT !["zoneA"] = r.grid], loaded)

NextGrid ==
    \/ Reset
    \/ \E d \in DataDocs : LoadFromData(d)
    \/ \E c \in ManualCells : SetTileAt(c[1], c[2])

SpecGrid == InitGrid /\ [][NextGrid]_vars

(* Grid.gridToWorld and Grid.worldToGrid on a grid of any tile size.        *)

TileSizes == {1, 7, TileSize}

InitCoords ==
    /\ InitScene
    /\ hook = NoHook
    /\ op = "create"
    /\ ret = FALSE
    /\ log = <<>>
    /\ interaction = IdleInteraction
    /\ IdleBus
    /\ \E ts \in TileSizes :
          grids = [IdleGrids EXCEPT !["zoneA"] = Grid_new(MaxDim, MaxDim, ts, "grass")]
    /\ loaded = <<>>
    /\ arg = <<>>
    /\ tagList = <<>>
    /\ IdleEngine

GridToWorld(x, y) ==
    World("gridToWorld", <<x, y>>, Grid_gridToWorld(TheGrid, x, y), grids, loaded)

WorldToGrid(wx, wy) ==
    World("worldToGrid", <<wx, wy>>, Grid_worldToGrid(TheGrid, wx, wy), grids, loaded)

\* world coordinates: the corners of the cells and the points just before
\* the next corner
WorldCoords ==
    {k * TheGrid.tileSize + r :
        k \in (-MaxCoord)..MaxCoord, r \in {0, TheGrid.tileSize - 1}}

NextCoords ==
    \/ \E x \in (-MaxCoord)..MaxCoord, y \in (-MaxCoord)..MaxCoord : GridToWorld(x, y)
    \/ \E wx \in WorldCoords, wy \in WorldCoords : WorldToGrid(wx, wy)

SpecCoords == InitCoords /\ [][NextCoords]_vars

(* Teleporters placed in the grids of zoneA and zoneB.                      *)

\* source and target cells: in both grids, in zoneA's grid only, in neither
TeleporterCells == {<<0, 0>>, <<MaxDim - 1, 0>>, <<0, MaxDim - 1>>, <<MaxDim, 0>>}

\* the property maps: empty, or naming a target zone of their own
TeleporterProperties == {NoProps, [targetZone |-> "elsewhere"]}

\* the teleporters, active as the constructor makes them by default
Teleporters ==
    {Teleporter_new(sz, s[1], s[2], tz, t[1], t[2], TRUE, props) :
        sz \in GridZones, tz \in GridZones,
        s \in TeleporterCells, t \in TeleporterCells,
        props \in TeleporterProperties}

\* the cells of the grids that hold a teleporter tile; teleporters are
\* placed into grids that hold none yet
TeleporterTiles ==
    {c \in GridZones \X (0..(MaxDim - 1)) \X (0..(MaxDim - 1)) :
        Grid_tileAt(grids[c[1]], c[2], c[3]).type = "teleporter"}

PlaceInGrid(t, id) ==
    /\ TeleporterTiles = {}
    /\ LET r == Teleporter_placeInGrid(t, grids, id)
       IN  World("placeInGrid", <<t, id>>, r.ret, r.grids, loaded)

\* createLinkedTeleporter with the grids of the teleporter's two zones
CreateLinkedTeleporter(t) ==
    /\ TeleporterTiles = {}
    /\ LET r == Teleporter_createLinkedTeleporter(t, grids, t.sourceZone, t.targetZone)
       IN  World("createLinkedTeleporter", <<t>>, r.ret, r.grids, loaded)

NextTeleporter ==
    \/ \E t \in Teleporters, id \in GridZones \cup {NoGrid} : PlaceInGrid(t, id)
    \/ \E t \in Teleporters : CreateLinkedTeleporter(t)

InitTeleporter == Init /\ currentZoneId = "village"

SpecTeleporter == InitTeleporter /\ [][NextTeleporter]_vars

(* Zone.loadEntities called on a zone, at construction and again.           *)

\* an entity descriptor: fields type, x, y, each given or not
Descriptor(id, given, type, x, y) ==
    [id |-> id, given |-> given, type |-> type, x |-> x, y |-> y]

Descriptors ==
    { Descriptor("elder", {"type", "x", "y"}, "npc", 0, 0),
      Descriptor("potion", {"type", "x", "y"}, "item", 1, 0),
      Descriptor("crate", {"type", "x", "y"}, "furniture", 0, 1),
      Descriptor("hero", {"type", "x", "y"}, "player", 1, 1),
      Descriptor("ghost", {"type", "x", "y"}, "spirit", 1, 1),
      Descriptor("nowhere", {"type", "y"}, "npc", 0, 0),
      Descriptor("flat", {"type", "x"}, "item", 0, 0),
      Descriptor("thing", {"x", "y"}, "undefined", 0, 0) }

DescriptorLists ==
    UNION {[1..n -> Descriptors] : n \in 0..MaxDescs}

\* the zone is handed lists while it holds fewer than MaxDescs entities
\* with the list
LoadEntities(data) ==
    /\ Len(loaded) + Len(data) <= MaxDescs
    /\ World("loadEntities", data, FALSE, grids, Zone_loadEntities(loaded, data))

NextLoad == \E data \in DescriptorLists : LoadEntities(data)

SpecLoad == Init /\ [][NextLoad]_vars

(* Entity.onInteract, NPC.onInteract and Item.onInteract called directly,  *)
(* on every entity of the scene by every entity of the scene, between the  *)
(* player's moves and the dialog being closed.                             *)
OnInteract(target, interactor) ==
    LET r == Entity_onInteract(Scene, target, entities[interactor])
    IN  Commit(r.s, "onInteract", r.ret)

NextOnInteract ==
    \/ \E target \in 1..Len(entities), interactor \in 1..Len(entities) :
          OnInteract(target, interactor)
    \/ \E d \in Directions : PlayerMove(d)
    \/ DialogComplete

SpecOnInteract == Init /\ [][NextOnInteract]_vars

(* addTag and removeTag called on the tags array of a tile or an entity   *)
(* as its constructor left it.                                             *)

\* the arrays the constructors leave: of a tile of each type, of the tile a
\* Teleporter places, of a base Entity, an NPC, an Item and a blocking NPC
TagArrays ==
    {Tile_tags(type, <<>>) : type \in {"grass", "forest", "water", "rock",
                                        "teleporter", "lava"}} \cup
    {Tile_tags("teleporter", <<"teleporter", "passable">>)} \cup
    {<<>>, <<"npc", "character">>, <<"item", "collectible">>,
     <<"npc", "character", "blocking">>}

\* the tags added and removed
TagNames == {"passable", "teleporter", "blocking", "npc"}

InitTags ==
    /\ InitScene
    /\ currentZoneId = "village"
    /\ hook = NoHook
    /\ op = "create"
    /\ ret = FALSE
    /\ log = <<>>
    /\ interaction = IdleInteraction
    /\ IdleBus
    /\ grids = IdleGrids
    /\ loaded = <<>>
    /\ arg = <<>>
    /\ tagList \in TagArrays
    /\ IdleEngine

AddTag(tag) ==
    /\ tagList' = Tags_addTag(tagList, tag)
    /\ op' = "addTag"
    /\ arg' = tag
    /\ ret' = FALSE
    /\ UNCHANGED <<sceneVars, log, interaction, busVars, grids, loaded, engineVars>>

RemoveTag(tag) ==
    /\ tagList' = Tags_removeTag(tagList, tag)
    /\ op' = "removeTag"
    /\ arg' = tag
    /\ ret' = FALSE
    /\ UNCHANGED <<sceneVars, log, interaction, busVars, grids, loaded, engineVars>>

NextTags ==
    \/ \E tag \in TagNames : AddTag(tag)
    \/ \E tag \in TagNames : RemoveTag(tag)

SpecTags == InitTags /\ [][NextTags]_vars

-----------------------------------------------------------------------------
(* Movement claims, checked under SpecMove *)

Cells == (-1..GridW) \X (-1..GridH)

\* no entity of the list stands on the cell of another entity tagged blocking
NoSharedBlocking(ents) ==
    \A i, j \in 1..Len(ents) :
        (i # j /\ ents[i].pos = ents[j].pos) => "blocking" \notin ents[j].tags

PlacedWell(ents) ==
    \A i \in 1..Len(ents) :
        /\ 0 <= ents[i].pos[1] /\ ents[i].pos[1] < GridW
        /\ 0 <= ents[i].pos[2] /\ ents[i].pos[2] < GridH
        /\ "passable" \in ZoneTile(currentZoneId, ents[i].pos[1], ents[i].pos[2]).tags

CleanScene(ents) == PlacedWell(ents) /\ NoSharedBlocking(ents)

\* C1: starting from a scene where every entity is in bounds, on a passable
\* tile and shares its cell with no entity tagged blocking, after any
\* sequence of moveTo / moveInDirection calls made by the entities every
\* entity is in bounds, on a passable tile and on no cell of another entity
\* tagged blocking.
C1_SceneStaysClean == CleanScene(entities)

\* the conjunction the claim gives for canMoveTo
CanMoveToAsClaimed(ents, i, x, y) ==
    /\ 0 <= x /\ x < GridW /\ 0 <= y /\ y < GridH
    /\ "passable" \in ZoneTile(currentZoneId, x, y).tags
    /\ \A j \in 1..Len(ents) :
          (j # i /\ ents[j].pos = <<x, y>>) => "blocking" \notin ents[j].tags

\* C2: canMoveTo(x, y) is true exactly when the target is in the grid, its
\* tile is passable and no other entity on the target cell is tagged
\* blocking, whatever the list order of the entities sharing the cell.
\* (Stated for the targets other than the entity's own cell; on its own cell
\* the code also lets the entity block itself.)
C2_CanMoveToIsTheConjunction ==
    \A i \in 1..Len(entities) : \A c \in Cells :
        c # entities[i].pos =>
            (Entity_canMoveTo(Scene, i, c[1], c[2])
                <=> CanMoveToAsClaimed(entities, i, c[1], c[2]))

\* C3: moveTo(x, y) returns canMoveTo(x, y); when that is false nothing
\* changes, when it is true the position becomes exactly (x, y) and nothing
\* else changes.
C3_MoveToAllOrNothing ==
    [][\A i \in Movers : \A c \in Cells :
          (op' = "moveTo" /\ MoveTo(i, c[1], c[2])) =>
             IF Entity_canMoveTo(Scene, i, c[1], c[2])
             THEN /\ ret' = TRUE
                  /\ entities' = [entities EXCEPT ![i].pos = c]
                  /\ UNCHANGED <<player, currentZoneId, gameState, dialogActive,
                                 inventory, moveCooldown>>
             ELSE /\ ret' = FALSE
                  /\ UNCHANGED sceneVars]_vars

\* a moveTo that changed both coordinates of the player at once
C3_Witness ==
    /\ op = "moveTo"
    /\ ret = TRUE
    /\ \E i \in 1..Len(entities) :
          /\ entities[i].id = "player"
          /\ entities[i].pos[1] # 1
          /\ entities[i].pos[2] # 1

StepOf(d) ==
    IF d = "north" THEN <<0, -1>>
    ELSE IF d = "east" THEN <<1, 0>>
    ELSE IF d = "south" THEN <<0, 1>>
    ELSE <<-1, 0>>

\* C4: moveInDirection(d), d one of the four directions, leaves the entity
\* facing d whether or not it moved, and moves it to the one-step target of d
\* or not at all; a player at (0,0) with water at (1,0) moving east gets
\* false, stays at (0,0) and faces east.
C4_MoveInDirectionTurnsAndSteps ==
    [][\A i \in 1..Len(entities) : \A d \in Directions :
          (op' = "moveInDirection" /\ MoveInDirection(i, d)) =>
             LET from == entities[i].pos
                 to   == <<from[1] + StepOf(d)[1], from[2] + StepOf(d)[2]>>
             IN  /\ entities'[i].dir = d
                 /\ entities'[i].pos = IF ret' THEN to ELSE from
                 /\ \A j \in 1..Len(entities) : j # i => entities'[j] = entities[j]
                 /\ ( /\ entities[i].id = "player"
                      /\ from = <<0, 0>>
                      /\ d = "east"
                      /\ ZoneTile(currentZoneId, 1, 0).type = "water" )
                    => (ret' = FALSE /\ entities'[i].pos = <<0, 0>>)]_vars

\* the player, at (0,0) beside the water tile, has tried to move east
C4_Witness ==
    /\ op = "moveInDirection"
    /\ ret = FALSE
    /\ currentZoneId = "village"
    /\ ZoneTile(currentZoneId, 1, 0).type = "water"
    /\ \E i \in 1..Len(entities) :
          /\ entities[i].id = "player"
          /\ entities[i].pos = <<0, 0>>
          /\ entities[i].dir = "east"

-----------------------------------------------------------------------------
(* Player claims, checked under Spec *)

ThePlayerNow == entities[CHOOSE i \in 1..Len(entities) : entities[i].id = player]

OppositeOf(d) ==
    IF d = "north" THEN "south"
    ELSE IF d = "south" THEN "north"
    ELSE IF d = "east" THEN "west"
    ELSE "east"

\* the list indices of the entities on the one cell ahead of the player
Ahead ==
    LET p == ThePlayerNow
    IN  {j \in 1..Len(entities) :
            entities[j].pos = <<p.pos[1] + StepOf(p.dir)[1],
                                p.pos[2] + StepOf(p.dir)[2]>>}

EventsOfType(l, type) == {k \in 1..Len(l) : l[k].type = type}

\* C5: interact() returns true and emits exactly one player_interact with
\* the player, the target and the player's facing, the target being the
\* first entity on the cell ahead, exactly when that entity is interactable,
\* accepts the direction opposite to the facing and its onInteract returns
\* true; otherwise it returns false and emits no player_interact.  When the
\* target is an NPC, dialog_start is emitted before player_interact.
C5_InteractReturnsAndEmits ==
    [][(op' = "interact" /\ PlayerInteract) =>
         LET p  == ThePlayerNow
             ok == /\ Ahead # {}
                   /\ entities[Min(Ahead)].interactable
                   /\ OppositeOf(p.dir) \in entities[Min(Ahead)].idirs
                   /\ Entity_onInteract(Scene, Min(Ahead), p).ret
         IN  /\ ret' = ok
             /\ ~ok => EventsOfType(log', "player_interact") = {}
             /\ ok => \E k \in 1..Len(log') :
                         /\ EventsOfType(log', "player_interact") = {k}
                         /\ log'[k].who = p.id
                         /\ log'[k].target = entities[Min(Ahead)].id
                         /\ log'[k].dir = p.dir
                         /\ entities[Min(Ahead)].type = "npc" =>
                               \E a \in 1..(k - 1) : log'[a].type = "dialog_start"]_vars

\* the player has just talked to the elder, who shares no cell and accepts
\* only two directions
C5_Witness ==
    /\ op = "interact"
    /\ ret = TRUE
    /\ Len(log) = 2
    /\ log[1].type = "dialog_start"
    /\ log[2].type = "player_interact"
    /\ log[2].target = "elder"

HasTarget(tile) ==
    /\ tile.type = "teleporter"
    /\ {"targetZone", "targetX", "targetY"} \subseteq DOMAIN tile.props

\* what a move in direction d has to do when the teleporters for which
\* Leads(tile) holds are the ones that change the zone
MoveAndTeleport(d, Leads(_)) ==
    LET p    == ThePlayerNow
        to   == <<p.pos[1] + StepOf(d)[1], p.pos[2] + StepOf(d)[2]>>
        tile == ZoneTile(currentZoneId, to[1], to[2])
        q    == entities'[CHOOSE i \in 1..Len(entities') : entities'[i].id = player']
    IN  IF ~ret'
        THEN /\ currentZoneId' = currentZoneId
             /\ log' = <<>>
             /\ q.pos = p.pos
        ELSE /\ Len(log') >= 1
             /\ log'[1].type = "player_move"
             /\ log'[1].pos = to
             /\ IF HasTarget(tile) /\ Leads(tile)
                THEN /\ currentZoneId' = tile.props.targetZone
                     /\ q.pos = <<tile.props.targetX, tile.props.targetY>>
                     /\ \E k \in 2..Len(log') :
                           /\ log'[k].type = "zone_change"
                           /\ log'[k].zone = tile.props.targetZone
                ELSE /\ currentZoneId' = currentZoneId
                     /\ q.pos = to
                     /\ Len(log') = 1

AnyTeleporter(tile) == TRUE

LeadsToLoadedZone(tile) == tile.props.targetZone \in ZoneIds

-----------------------------------------------------------------------------
(* Interaction claim, checked under SpecInteraction *)

\* C6: execute(source, target, direction) returns false and emits nothing
\* when the target lacks a required tag or the direction is not an allowed
\* one; it returns true, emitting exactly one event of the configured type
\* with source, target, direction and the interaction, when both hold.
C6_ExecuteIsGated ==
    [][\A target \in {NoTarget} \cup (1..Len(entities)) :
       \A d \in Directions \cup {BadDirection} :
          Execute(IndexOfId(entities, player), target, d) =>
             LET ok == /\ target # NoTarget
                       /\ interaction.requiredTags \subseteq entities[target].tags
                       /\ d \in interaction.directions
             IN  /\ ret' = ok
                 /\ UNCHANGED sceneVars
                 /\ ~ok => log' = <<>>
                 /\ ok => /\ Len(log') = 1
                          /\ log'[1].type = interaction.eventType
                          /\ log'[1].who = player
                          /\ log'[1].target = entities[target].id
                          /\ log'[1].dir = d
                          /\ log'[1].via = interaction.id]_vars

\* the rule requiring "character" from north or south has just been
\* executed on a character from an allowed direction
C6_Witness ==
    /\ op = "execute"
    /\ ret = TRUE
    /\ interaction.requiredTags = {"character"}
    /\ interaction.directions = {"north", "south"}
    /\ Len(log) = 1
    /\ log[1].target \in {"guard", "elder"}
    /\ log[1].dir \in {"north", "south"}

-----------------------------------------------------------------------------
(* EventSystem claims, checked under SpecEvents *)

\* C7: emit(type, data) invokes every callback subscribed to the type when
\* emit is called, once per registration, in subscription order, with data,
\* and no callback of another type.
C7_EmitInvokesAllSubscribed ==
    [][\A type \in EventTypes, data \in EventData :
          Emit(type, data) =>
             invoked' = [k \in 1..Len(listeners[type]) |->
                            [cb |-> listeners[type][k], data |-> data]]]_vars

\* C8: when a subscriber throws during emit, every subscriber registered
\* after it for the type is still invoked and the fault is reported, for
\* any position and number of throwing subscribers.
C8_ThrowingListenerIsIsolated ==
    [][\A type \in EventTypes, data \in EventData :
          Emit(type, data) =>
             \A k \in 1..Len(listeners[type]) :
                Throwing(listeners[type][k]) =>
                   /\ \E m \in 1..Len(reported') : reported'[m] = listeners[type][k]
                   /\ \A j \in (k + 1)..Len(listeners[type]) :
                         \E m \in 1..Len(invoked') :
                            invoked'[m].cb = listeners[type][j]]_vars

\* C9: unsubscribe(type, cb) removes one registration of cb for the type
\* and nothing else: the other callbacks of the type keep their
\* registrations and order, the other types are untouched, and nothing
\* changes when cb is not registered for the type.
C9_UnsubscribeRemovesOnlyThatCallback ==
    [][\A type \in EventTypes, cb \in Callbacks :
          Unsubscribe(type, cb) =>
             LET old == listeners[type]
                 new == listeners'[type]
                 registered == \E k \in 1..Len(old) : old[k] = cb
             IN  /\ \A other \in EventTypes \ {type} :
                       listeners'[other] = listeners[other]
                 /\ SelectSeq(new, LAMBDA c : c # cb) = SelectSeq(old, LAMBDA c : c # cb)
                 /\ ~registered => new = old
                 /\ registered =>
                       \E k \in 1..Len(old) :
                          /\ old[k] = cb
                          /\ new = SubSeq(old, 1, k - 1) \o SubSeq(old, k + 1, Len(old))]_vars

\* a registration has just been removed from a type that keeps two others
C9_Witness ==
    /\ op = "unsubscribe"
    /\ ret = TRUE
    /\ Len(listeners["a"]) = 2
    /\ listeners["a"][1] # listeners["a"][2]

-----------------------------------------------------------------------------
(* Zone change claims, checked under Spec *)

PlayerAfter == entities'[CHOOSE i \in 1..Len(entities') : entities'[i].id = player']

\* the last call changed the zone
ZoneChanged(l) == EventsOfType(l, "zone_change") # {}

\* C11: a successful zone change keeps the player's identity and inventory:
\* the player entity after it has the same id, tags and facing as before,
\* stands at the target coordinates, and the inventory holds the same items
\* in the same order.
C11_ZoneChangeKeepsPlayerAndInventory ==
    [][(op' = "move" /\ ZoneChanged(log')) =>
          /\ player' = player
          /\ PlayerAfter.id = ThePlayerNow.id
          /\ PlayerAfter.tags = ThePlayerNow.tags
          /\ PlayerAfter.type = ThePlayerNow.type
          /\ PlayerAfter.dir = log'[1].dir
          /\ inventory' = inventory]_vars

\* C12: a zone change requested while a changeZone is running (by a
\* listener of zone-loaded or zone_change) is rejected or deferred: the
\* changes do not interleave, so the scene after the call is the one the
\* running change leaves alone, or the one the two changes leave when made
\* one after the other.
C12_ZoneChangesDoNotInterleave ==
    [][\A z \in ZoneIds \cup {UnknownZone}, c \in TargetCells :
          (op' = "changeZone" /\ ChangeZone(z, c[1], c[2])) =>
             LET alone == GameScene_changeZone([Scene EXCEPT !.hook = NoHook],
                                               z, c[1], c[2])
                 after == GameScene_changeZone(alone, hook.target, hook.x, hook.y)
             IN  \/ /\ entities' = alone.entities
                    /\ currentZoneId' = alone.zone
                 \/ /\ hook # NoHook
                    /\ entities' = after.entities
                    /\ currentZoneId' = after.zone]_vars

-----------------------------------------------------------------------------
(* Item pickup, checked under Spec *)

\* C13: when the player successfully interacts with a pickupable item on
\* the cell ahead, the item is removed from its zone's entity collection
\* and found by no entity lookup, the inventory grows by exactly that item,
\* appended, and exactly one item_pickup event is emitted.
C13_PickupRemovesItemAndFillsInventory ==
    [][( /\ op' = "interact"
         /\ PlayerInteract
         /\ ret'
         /\ Ahead # {}
         /\ entities[Min(Ahead)].type = "item"
         /\ entities[Min(Ahead)].pickupable ) =>
          LET item == entities[Min(Ahead)]
          IN  /\ \A i \in 1..Len(entities') : entities'[i].id # item.id
              /\ ~Zone_hasEntityById(currentZoneId', item.id)
              /\ inventory' = Append(inventory, item.id)
              /\ Cardinality(EventsOfType(log', "item_pickup")) = 1]_vars

-----------------------------------------------------------------------------
(* Teleporter claims, checked under SpecTeleporter *)

\* the teleporter tile at a cell of a grid names the target zone and cell
PointsAt(g, x, y, zone, tx, ty) ==
    LET tile == Grid_tileAt(g, x, y)
    IN  /\ tile.type = "teleporter"
        /\ {"targetZone", "targetX", "targetY"} \subseteq DOMAIN tile.props
        /\ tile.props.targetZone = zone
        /\ tile.props.targetX = tx
        /\ tile.props.targetY = ty

\* C14: for a teleporter whose source and target cells are in bounds of
\* their zones' grids, createLinkedTeleporter leaves at the source cell a
\* teleporter tile naming the target zone and cell, leaves at the target
\* cell a teleporter tile naming the source zone and cell, and returns a
\* teleporter whose source and target are the forward teleporter's target
\* and source.
C14_LinkedTeleportersPointAtEachOther ==
    [][( /\ op' = "createLinkedTeleporter"
         /\ Grid_isInBoundsOf(grids[arg'[1].sourceZone],
                              arg'[1].sourceX, arg'[1].sourceY)
         /\ Grid_isInBoundsOf(grids[arg'[1].targetZone],
                              arg'[1].targetX, arg'[1].targetY) ) =>
          LET t == arg'[1]
          IN  /\ PointsAt(grids'[t.sourceZone], t.sourceX, t.sourceY,
                          t.targetZone, t.targetX, t.targetY)
              /\ PointsAt(grids'[t.targetZone], t.targetX, t.targetY,
                          t.sourceZone, t.sourceX, t.sourceY)
              /\ ret'.sourceZone = t.targetZone
              /\ ret'.sourceX = t.targetX
              /\ ret'.sourceY = t.targetY
              /\ ret'.targetZone = t.sourceZone
              /\ ret'.targetX = t.sourceX
              /\ ret'.targetY = t.sourceY]_vars

\* the cells of a grid other than (x, y) are the cells of the grid before
SameElsewhere(g, h, x, y) ==
    /\ g.width = h.width
    /\ g.height = h.height
    /\ \A cx \in 0..(g.width - 1), cy \in 0..(g.height - 1) :
          <<cx, cy>> # <<x, y>> => Grid_tileAt(g, cx, cy) = Grid_tileAt(h, cx, cy)

\* C15: placeInGrid with the source cell in bounds of the grid returns true
\* and replaces the tile at the source cell by a tile of type teleporter
\* with the tags teleporter and passable and the properties targetZone,
\* targetX and targetY (the teleporter's, where its property map does not
\* define them); with the source cell out of bounds, or with no grid, it
\* returns false and leaves every cell of every grid as it was.
C15_PlaceInGridPlacesOrRefuses ==
    [][op' = "placeInGrid" =>
          LET t  == arg'[1]
              id == arg'[2]
          IN  IF id # NoGrid /\ Grid_isInBoundsOf(grids[id], t.sourceX, t.sourceY)
              THEN LET tile == Grid_tileAt(grids'[id], t.sourceX, t.sourceY)
                   IN  /\ ret' = TRUE
                       /\ tile.type = "teleporter"
                       /\ {"teleporter", "passable"} \subseteq tile.tags
                       /\ \A k \in {"targetZone", "targetX", "targetY"} :
                             /\ k \in DOMAIN tile.props
                             /\ k \notin DOMAIN t.properties => tile.props[k] = t[k]
                       /\ SameElsewhere(grids'[id], grids[id], t.sourceX, t.sourceY)
                       /\ \A z \in GridZones \ {id} : grids'[z] = grids[z]
              ELSE /\ ret' = FALSE
                   /\ grids' = grids]_vars

\* a teleporter was placed at an in-bounds cell of zoneB's grid
C15_Witness ==
    /\ op = "placeInGrid"
    /\ ret = TRUE
    /\ arg[2] = "zoneB"
    /\ Grid_tileAt(grids["zoneB"], arg[1].sourceX, arg[1].sourceY).type = "teleporter"

-----------------------------------------------------------------------------
(* Grid claims, checked under SpecGrid *)

\* the coordinates looked at: the cells of the largest grid and a margin
Around == (-1)..(MaxDim + 1)

\* isInBounds holds exactly within the width and height, getTileAt gives a
\* tile exactly in bounds and null elsewhere, and the rows hold one tile for
\* every in-bounds cell
GridWellFormed(g) ==
    /\ \A x \in Around, y \in Around :
          /\ Grid_isInBoundsOf(g, x, y) <=>
                (0 <= x /\ x < g.width /\ 0 <= y /\ y < g.height)
          /\ Grid_isInBoundsOf(g, x, y) <=>
                (Grid_tileAt(g, x, y) \notin {NullTile, MissingTile})
          /\ ~Grid_isInBoundsOf(g, x, y) => Grid_tileAt(g, x, y) = NullTile
    /\ Len(g.tiles) = g.height
    /\ \A y \in 1..Len(g.tiles) : Len(g.tiles[y]) = g.width

\* C16: after any sequence of construction, reset, loadFromData (also with
\* a new width or height) and setTileAt, isInBounds holds exactly for
\* 0 <= x < width and 0 <= y < height, getTileAt returns a tile exactly when
\* isInBounds holds and null otherwise, every in-bounds cell holds one
\* tile, and setTileAt out of bounds returns false and changes nothing.
C16_GridKeepsItsCells ==
    /\ []GridWellFormed(TheGrid)
    /\ [][(op' = "setTileAt" /\ ~Grid_isInBoundsOf(TheGrid, arg'[1], arg'[2])) =>
             (ret' = FALSE /\ grids' = grids)]_vars

\* a load that made the grid narrower and put a tile into it
C16_Witness ==
    /\ op = "loadFromData"
    /\ Has(arg, "width")
    /\ arg.width < MaxDim
    /\ TheGrid.width = arg.width
    /\ Grid_tileAt(TheGrid, 0, 0).type = "rock"

\* the grid shows the same dimensions and the same tile in every cell
SameCells(g, h) ==
    /\ g.width = h.width
    /\ g.height = h.height
    /\ \A x \in Around, y \in Around : Grid_tileAt(g, x, y) = Grid_tileAt(h, x, y)

\* C17: loadFromData is idempotent: for every grid and every data document,
\* loading the document a second time leaves the dimensions and the type,
\* tags and properties of every cell as the first load left them.
C17_LoadFromDataIsIdempotent ==
    [][op' = "loadFromData" =>
          SameCells(Grid_loadFromData(grids'["zoneA"], arg'), grids'["zoneA"])]_vars

\* the entries of a tile list that name the in-bounds cell (x, y)
Naming(g, list, x, y) ==
    {i \in 1..Len(list) :
        /\ Has(list[i], "x") /\ Has(list[i], "y") /\ Has(list[i], "type")
        /\ list[i].x = x /\ list[i].y = y}

Max(S) == CHOOSE m \in S : \A n \in S : m >= n

\* C18: after loadFromData(data) the grid has the width and height of the
\* document (when given), every cell named by an in-bounds override holds a
\* tile of the override's type and properties (the last override's, when
\* several name the cell), and every other cell holds a tile of the default
\* type (data.defaultTile when given), whatever the grid held before.
C18_LoadFromDataBuildsTheDocument ==
    [][op' = "loadFromData" =>
          LET d == arg'
              g == grids'["zoneA"]
              list == IF Has(d, "tiles") THEN d.tiles ELSE <<>>
              default == IF Has(d, "defaultTile") THEN d.defaultTile
                         ELSE TheGrid.defaultTileType
          IN  /\ Has(d, "width") => g.width = d.width
              /\ Has(d, "height") => g.height = d.height
              /\ \A x \in 0..(g.width - 1), y \in 0..(g.height - 1) :
                    IF Naming(g, list, x, y) # {}
                    THEN LET o == list[Max(Naming(g, list, x, y))]
                         IN  /\ Grid_tileAt(g, x, y).type = o.type
                             /\ Grid_tileAt(g, x, y).props =
                                   (IF Has(o, "properties") THEN o.properties
                                    ELSE NoProps)
                    ELSE Grid_tileAt(g, x, y).type = default]_vars

-----------------------------------------------------------------------------
(* Coordinate conversion claim, checked under SpecCoords *)

\* C19: for all integral grid coordinates (x, y), negative ones included,
\* and any positive tile size, converting the world coordinates that
\* gridToWorld(x, y) returned back with worldToGrid gives (x, y).
C19_WorldToGridInvertsGridToWorld ==
    [][( /\ op = "gridToWorld"
         /\ op' = "worldToGrid"
         /\ arg' = <<ret.x, ret.y>> ) =>
          ret' = [x |-> arg[1], y |-> arg[2]]]_vars

\* a cell left of and above the origin was converted back, on a grid whose
\* tiles are wider than one world unit
C19_Witness ==
    /\ op = "worldToGrid"
    /\ TheGrid.tileSize > 1
    /\ ret.x < 0
    /\ ret.y < 0
    /\ arg = <<ret.x * TheGrid.tileSize, ret.y * TheGrid.tileSize>>

-----------------------------------------------------------------------------
(* Zone.loadEntities claim, checked under SpecLoad *)

\* a descriptor with type, x and y that is not of type player
Loadable(d) == Has(d, "type") /\ Has(d, "x") /\ Has(d, "y") /\ d.type # "player"

\* the entity a loadable descriptor stands for: an NPC, an Item, or a base
\* Entity for furniture and for types the zone does not know
EntityFor(d) ==
    [id |-> d.id,
     class |-> IF d.type = "npc" THEN "NPC"
               ELSE IF d.type = "item" THEN "Item" ELSE "Entity",
     type |-> d.type, x |-> d.x, y |-> d.y]

\* C20: loadEntities(list) adds, in list order, one entity per well-formed
\* descriptor: descriptors of type player add nothing, descriptors of an
\* unknown type add a base Entity, and a descriptor without x, y or type is
\* skipped without keeping any later descriptor from being loaded.
C20_LoadEntitiesLoadsEveryWellFormedDescriptor ==
    [][op' = "loadEntities" =>
          LET kept == SelectSeq(arg', Loadable)
          IN  loaded' = loaded \o [i \in 1..Len(kept) |-> EntityFor(kept[i])]]_vars

\* a list whose first descriptor lacks x and whose second has an unknown
\* type was loaded, and the zone's last entity is that second one
C20_Witness ==
    /\ op = "loadEntities"
    /\ Len(arg) = 2
    /\ ~Has(arg[1], "x")
    /\ arg[2].type = "spirit"
    /\ Len(loaded) > 0
    /\ loaded[Len(loaded)].id = arg[2].id
    /\ loaded[Len(loaded)].class = "Entity"

-----------------------------------------------------------------------------
(* onInteract claims, checked under SpecOnInteract *)

\* C21: for every entity variant and every interactor, onInteract returning
\* false means that no game state changed and no event was emitted, and
\* onInteract returning true means that its side effect has happened by the
\* time it returns: a dialog is shown, the inventory changed, the zone
\* changed or an event was emitted.
C21_OnInteractReturnTellsWhatHappened ==
    [][op' = "onInteract" =>
          IF ret'
          THEN \/ dialogActive' /\ EventsOfType(log', "dialog_start") # {}
               \/ inventory' # inventory
               \/ EventsOfType(log', "zone_change") # {}
               \/ log' # <<>>
          ELSE UNCHANGED sceneVars /\ log' = <<>>]_vars

\* the scene variables after a call are those of the scene record
SceneIs(s) ==
    /\ entities' = s.entities
    /\ player' = s.player
    /\ currentZoneId' = s.zone
    /\ gameState' = s.gameState
    /\ dialogActive' = s.dialogActive
    /\ inventory' = s.inventory
    /\ moveCooldown' = s.moveCooldown

Items == {i \in 1..Len(entities) : entities[i].type = "item"}

\* C22: Item.onInteract by a player picks the item up when it is pickupable
\* (also when it has a use effect, which is then not applied), otherwise
\* uses it when it has a use effect, and otherwise returns false with
\* nothing changed.
C22_ItemInteractPicksUpThenUses ==
    [][\A t \in Items :
          (op' = "onInteract" /\ OnInteract(t, IndexOfId(entities, player))) =>
             LET item == entities[t]
                 p    == ThePlayerNow
             IN  IF item.pickupable
                 THEN /\ ret' = Item_onPickup(Scene, t, p).ret
                      /\ SceneIs(Item_onPickup(Scene, t, p).s)
                      /\ ret'
                      /\ inventory' = Append(inventory, item.id)
                      /\ \A k \in 1..Len(log') :
                            log'[k].type \notin {"item-use", "zone_change"}
                      /\ currentZoneId' = currentZoneId
                 ELSE IF item.useEffect.type # "none"
                 THEN /\ ret' = Item_onUse(Scene, t, p).ret
                      /\ SceneIs(Item_onUse(Scene, t, p).s)
                      /\ log' = Item_onUse(Scene, t, p).s.log
                 ELSE ret' = FALSE /\ UNCHANGED sceneVars /\ log' = <<>>]_vars

\* the pickupable potion, which has a use effect, was picked up by onInteract
C22_Witness ==
    /\ op = "onInteract"
    /\ ret = TRUE
    /\ inventory # <<>>
    /\ inventory[Len(inventory)] = "potion"
    /\ \A i \in 1..Len(entities) : entities[i].id # "potion"

-----------------------------------------------------------------------------
(* Tag claim, checked under SpecTags *)

\* C23: addTag of a tag already present and removeTag of an absent tag
\* change nothing, and addTag (removeTag) applied a second time leaves the
\* tags as the first application left them, for every tags array the Tile,
\* Entity and Teleporter constructors produce and every array reached from
\* those.
C23_TagMutationIsIdempotent ==
    [][ /\ op' = "addTag" =>
            /\ Tags_has(tagList, arg') => tagList' = tagList
            /\ Tags_addTag(tagList', arg') = tagList'
        /\ op' = "removeTag" =>
            /\ ~Tags_has(tagList, arg') => tagList' = tagList
            /\ Tags_removeTag(tagList', arg') = tagList' ]_vars

-----------------------------------------------------------------------------
(* GameScene.update: one tick of the game loop.  In the playing state the  *)
(* player's handleInput runs with the keys held and then the update of     *)
(* every entity with the tick's delta (the player's lowers its cooldown);  *)
(* in the dialog state an INTERACT key just pressed goes to the dialog,    *)
(* which closes once its text is fully shown.                              *)

GameScene_update(s, keys, delta, advance) ==
    IF s.gameState = "playing"
    THEN Bind(Player_handleInput(s, keys),
              LAMBDA h : Result(Player_update(h.s, delta), h.ret))
    ELSE IF s.gameState = "dialog" /\ advance
    THEN Result(Dialog_complete(s), NoAttempt)
    ELSE Result(s, NoAttempt)

\* the time since the last successful move, at the tick that follows delta
\* after the one before
Elapsed(delta) == Min({sinceMove + delta, MoveCooldownDuration})

Tick(keys, delta, advance) ==
    \E r \in {GameScene_update(Scene, keys, delta, advance)} :
        /\ entities' = r.s.entities
        /\ player' = r.s.player
        /\ currentZoneId' = r.s.zone
        /\ gameState' = r.s.gameState
        /\ dialogActive' = r.s.dialogActive
        /\ inventory' = r.s.inventory
        /\ moveCooldown' = r.s.moveCooldown
        /\ hook' = r.s.hook
        /\ log' = r.s.log
        /\ op' = "tick"
        /\ ret' = r.ret
        /\ arg' = [keys |-> keys, delta |-> delta]
        /\ sinceMove' = IF r.ret.moved THEN 0 ELSE Elapsed(delta)
        /\ UNCHANGED <<interaction, busVars, refVars, grids, loaded, tagList, dataVars,
                       npcVars, uiVars>>

NextTick ==
    \E keys \in SUBSET Keys, delta \in Deltas, advance \in BOOLEAN :
       Tick(keys, delta, advance)

SpecTick == Init /\ [][NextTick]_vars

\* C24: one call of handleInput performs at most one of a move attempt and
\* an interact attempt: the move attempted is the one of the first movement
\* key held in the order north, east, south, west, and no interact is
\* performed in a tick in which a movement key was acted upon.
C24_OneAttemptPerTick ==
    [][ op' = "tick" =>
          /\ ret'.move \in {"none", Player_heldDirection(arg'.keys)}
          /\ ~(ret'.move # "none" /\ ret'.interact) ]_vars

\* C25: the time elapsed between two successful moves of the player is at
\* least MoveCooldownDuration, whatever the deltas of the ticks, also when a
\* zone change happens between the two moves.
C25_MinimumIntervalBetweenMoves ==
    [][ op' = "tick" /\ ret'.moved =>
          sinceMove + arg'.delta >= MoveCooldownDuration ]_vars
-----------------------------------------------------------------------------
(* Zones asked for by id: changeZone and loadZone called with the id of a  *)
(* loaded zone, with an id no document defines, and with a name every      *)
(* object inherits; the scene created anew with each of them as its        *)
(* initial zone; the player's moves in between.                            *)

\* the zone createDefaultZone builds
DefaultZone == "default"

RequestedZones == ZoneIds \cup {UnknownZone} \cup InheritedNames

\* create() of a fresh scene whose init got the zone id: the entity list is
\* empty and there is no player when loadZone runs
GameScene_create(s, zoneId) ==
    LET fresh == [s EXCEPT !.entities = <<>>, !.zone = "", !.gameState = "playing",
                           !.dialogActive = FALSE, !.inventory = <<>>,
                           !.moveCooldown = 0, !.detached = [id |-> "-"]]
        r     == GameScene_loadZone(fresh, zoneId)
        s1    == IF r.ret THEN r.s ELSE [r.s EXCEPT !.zone = DefaultZone]
    IN  [s1 EXCEPT !.entities = Append(@, ThePlayer), !.player = ThePlayer.id]

Create(z) == Commit(GameScene_create(Scene, z), "create", FALSE)

LoadZone(z) ==
    LET r == GameScene_loadZone(Scene, z) IN Commit(r.s, "loadZone", r.ret)

\* whether the entity list holds the player: a loadZone called on its own
\* leaves the list without it, and the model then waits for the scene to be
\* created anew before the player moves or changes zone again
PlayerListed == IndexOfId(entities, player) # 0

NextRequest ==
    \/ /\ PlayerListed
       /\ \E z \in RequestedZones, c \in TargetCells : ChangeZone(z, c[1], c[2])
    \/ \E z \in RequestedZones : LoadZone(z)
    \/ \E z \in RequestedZones : Create(z)
    \/ /\ PlayerListed
       /\ \E d \in Directions : PlayerMove(d)

SpecRequest == Init /\ [][NextRequest]_vars

\* C26: a request naming a zone id without a loaded definition fails without
\* changing anything: changeZone and loadZone leave the zone, the entity list
\* and the player as they were and emit nothing (loadZone returns false);
\* a scene created with such an initial zone id shows the default zone.
C26_UnknownZoneIsRecoverableMiss ==
    [][\A z \in RequestedZones \ ZoneIds :
          /\ \A c \in TargetCells :
                (op' = "changeZone" /\ ChangeZone(z, c[1], c[2])) =>
                   UNCHANGED sceneVars /\ log' = <<>>
          /\ (op' = "loadZone" /\ LoadZone(z)) =>
                ret' = FALSE /\ UNCHANGED sceneVars /\ log' = <<>>
          /\ (op' = "create" /\ Create(z)) => currentZoneId' = DefaultZone ]_vars
-----------------------------------------------------------------------------
(* Validator and the data manager's caches.  A document is a record of its *)
(* fields; Absent stands for a field the document does not have.  Fields   *)
(* whose value only matters through its JavaScript type (tags, properties, *)
(* dialog, interactable) hold the name of that type; a list field holds    *)
(* its kind (absent, an array, another object) and its items; the field    *)
(* nan of a document names its numeric fields that are absent or hold      *)
(* something that is not a number.                                         *)

Absent == "absent"

\* !value for the ids, type names and zone names of a document
Falsy(v) == v = Absent \/ v = ""

\* value === undefined || typeof value !== 'number', for the field f of d
NotNumber(d, f) == f \in d.nan

\* the list fields of a zone document
NoList == [kind |-> Absent, items |-> <<>>]
NotArray == [kind |-> "object", items |-> <<>>]
List(items) == [kind |-> "array", items |-> items]

\* Object.values of CONSTANTS.TILE_TYPES, ENTITY_TYPES, SHAPES
TileTypes == {"grass", "forest", "water", "rock", "teleporter"}
EntityTypes == {"player", "npc", "item", "furniture"}
Shapes == {"rectangle", "circle", "triangle"}

\* the outcome of a validation: its return value and Validator.errors
Verdict(ok, errs) == [ok |-> ok, errors |-> errs]

Validator_validateTileObject(tile, errs) ==
    IF Falsy(tile.id) THEN Verdict(FALSE, Append(errs, "Tile is missing id"))
    ELSE IF Falsy(tile.type) THEN Verdict(FALSE, Append(errs, "Tile is missing type"))
    ELSE IF tile.type \notin TileTypes
    THEN Verdict(FALSE, Append(errs, "Tile has invalid type"))
    ELSE IF tile.tags \notin {Absent, "array"}
    THEN Verdict(FALSE, Append(errs, "Tile has invalid tags"))
    ELSE IF tile.properties \notin {Absent, "object"}
    THEN Verdict(FALSE, Append(errs, "Tile has invalid properties"))
    ELSE Verdict(TRUE, errs)

Validator_validateEntityObject(entity, errs) ==
    IF Falsy(entity.id) THEN Verdict(FALSE, Append(errs, "Entity is missing id"))
    ELSE IF Falsy(entity.type)
    THEN Verdict(FALSE, Append(errs, "Entity is missing type"))
    ELSE IF entity.type \notin EntityTypes
    THEN Verdict(FALSE, Append(errs, "Entity has invalid type"))
    ELSE IF ~Falsy(entity.shape) /\ entity.shape \notin Shapes
    THEN Verdict(FALSE, Append(errs, "Entity has invalid shape"))
    ELSE IF entity.tags \notin {Absent, "array"}
    THEN Verdict(FALSE, Append(errs, "Entity has invalid tags"))
    ELSE IF entity.properties \notin {Absent, "object"}
    THEN Verdict(FALSE, Append(errs, "Entity has invalid properties"))
    ELSE IF entity.type = "npc" /\ entity.dialog \notin {Absent, "string", "object"}
    THEN Verdict(FALSE, Append(errs, "NPC has invalid dialog"))
    ELSE IF entity.type = "item" /\ entity.interactable \notin {Absent, "boolean"}
    THEN Verdict(FALSE, Append(errs, "Item has invalid interactable property"))
    ELSE Verdict(TRUE, errs)

\* what the loop over zone.tiles or zone.entities reports for one entry
\* ("" when it passes)
Validator_placedFault(e, what) ==
    IF NotNumber(e, "x") THEN "Zone has " \o what \o " with invalid x"
    ELSE IF NotNumber(e, "y") THEN "Zone has " \o what \o " with invalid y"
    ELSE IF Falsy(e.type) THEN "Zone has " \o what \o " without type"
    ELSE ""

\* the same for one entry of zone.teleporters
Validator_teleporterFault(e) ==
    IF NotNumber(e, "x") THEN "Zone has teleporter with invalid x"
    ELSE IF NotNumber(e, "y") THEN "Zone has teleporter with invalid y"
    ELSE IF Falsy(e.targetZone) THEN "Zone has teleporter without targetZone"
    ELSE IF NotNumber(e, "targetX") THEN "Zone has teleporter with invalid targetX"
    ELSE IF NotNumber(e, "targetY") THEN "Zone has teleporter with invalid targetY"
    ELSE ""

\* the fault of the first entry of a list that has one ("" when none has);
\* faults is the list of the entries' faults
FirstFault(faults) ==
    LET bad == {i \in 1..Len(faults) : faults[i] # ""}
    IN  IF bad = {} THEN "" ELSE faults[Min(bad)]

\* the faults of the entries of a list field (none unless it is an array)
Faults(list, Fault(_)) ==
    [i \in 1..Len(list.items) |-> Fault(list.items[i])]

Validator_validateZoneObject(zone, errs) ==
    LET TileFault(e) == Validator_placedFault(e, "tile")
        EntityFault(e) == Validator_placedFault(e, "entity")
        tileFault == FirstFault(Faults(zone.tiles, TileFault))
        entityFault == FirstFault(Faults(zone.entities, EntityFault))
        teleporterFault == FirstFault(Faults(zone.teleporters,
                                             Validator_teleporterFault))
    IN  IF Falsy(zone.id) THEN Verdict(FALSE, Append(errs, "Zone is missing id"))
        ELSE IF NotNumber(zone, "width") \/ zone.width <= 0
        THEN Verdict(FALSE, Append(errs, "Zone has invalid width"))
        ELSE IF NotNumber(zone, "height") \/ zone.height <= 0
        THEN Verdict(FALSE, Append(errs, "Zone has invalid height"))
        ELSE IF Falsy(zone.defaultTile)
        THEN Verdict(FALSE, Append(errs, "Zone is missing defaultTile"))
        ELSE IF zone.tiles.kind = "object"
        THEN Verdict(FALSE, Append(errs, "Zone has invalid tiles"))
        ELSE IF tileFault # "" THEN Verdict(FALSE, Append(errs, tileFault))
        ELSE IF zone.entities.kind = "object"
        THEN Verdict(FALSE, Append(errs, "Zone has invalid entities"))
        ELSE IF entityFault # "" THEN Verdict(FALSE, Append(errs, entityFault))
        ELSE IF zone.teleporters.kind = "object"
        THEN Verdict(FALSE, Append(errs, "Zone has invalid teleporters"))
        ELSE IF teleporterFault # "" THEN Verdict(FALSE, Append(errs, teleporterFault))
        ELSE Verdict(TRUE, errs)

Validator_validateInteractionObject(rule, errs) ==
    IF Falsy(rule.id)
    THEN Verdict(FALSE, Append(errs, "Interaction is missing id"))
    ELSE IF rule.requiredTags \notin {Absent, "array"}
    THEN Verdict(FALSE, Append(errs, "Interaction has invalid requiredTags"))
    ELSE IF rule.directions.kind = "object"
    THEN Verdict(FALSE, Append(errs, "Interaction has invalid directions"))
    ELSE IF \E i \in 1..Len(rule.directions.items) :
               rule.directions.items[i] \notin Directions
    THEN Verdict(FALSE, Append(errs, "Interaction has invalid direction"))
    ELSE IF Falsy(rule.eventType)
    THEN Verdict(FALSE, Append(errs, "Interaction is missing eventType"))
    ELSE Verdict(TRUE, errs)

DataTypes == {"tile", "entity", "zone"}

Validator_validateObject(dataType, doc, errs) ==
    CASE dataType = "tile"   -> Validator_validateTileObject(doc, errs)
      [] dataType = "entity" -> Validator_validateEntityObject(doc, errs)
      [] dataType = "zone"   -> Validator_validateZoneObject(doc, errs)
      [] dataType = "interaction" -> Validator_validateInteractionObject(doc, errs)

\* Array.every over the items of a file from item i on: it stops at the
\* first invalid item, whose index is reported as well
RECURSIVE Validator_every(_, _, _, _)
Validator_every(dataType, items, i, errs) ==
    IF i > Len(items) THEN Verdict(TRUE, errs)
    ELSE LET v == Validator_validateObject(dataType, items[i], errs)
         IN  IF v.ok THEN Validator_every(dataType, items, i + 1, v.errors)
             ELSE Verdict(FALSE, Append(v.errors, "Item is invalid"))

\* validateTile / validateEntity / validateZone of the data a file holds: an
\* array of documents or a single document.  The errors are cleared first.
Validator_validate(dataType, file) ==
    IF file.isArray THEN Validator_every(dataType, file.docs, 1, <<>>)
    ELSE Validator_validateObject(dataType, file.docs[1], <<>>)

\* targetCache[id] = document
Put(cache, id, doc) ==
    [k \in DOMAIN cache \cup {id} |-> IF k = id THEN doc ELSE cache[k]]

\* data.forEach(item => { if (item.id) targetCache[item.id] = item })
RECURSIVE DataManager_storeAll(_, _, _)
DataManager_storeAll(cache, items, i) ==
    IF i > Len(items) THEN cache
    ELSE DataManager_storeAll(IF Falsy(items[i].id) THEN cache
                              ELSE Put(cache, items[i].id, items[i]),
                              items, i + 1)

\* a store that puts the data of a file into the cache without validating it
DataManager_store_unvalidated(cs, errs, dataType, file) ==
    [caches |-> [cs EXCEPT ![dataType] =
                    DataManager_storeAll(@, file.docs, 1)],
     errors |-> errs, ok |-> TRUE]

\* loadDataFiles: what is done with the data of one file once it is fetched
DataManager_store(cs, errs, dataType, file) ==
    LET v == Validator_validate(dataType, file)
    IN  IF ~v.ok THEN [caches |-> cs, errors |-> v.errors, ok |-> FALSE]
        ELSE [caches |-> [cs EXCEPT ![dataType] =
                            DataManager_storeAll(@, file.docs, 1)],
              errors |-> v.errors, ok |-> TRUE]

(* The documents handed to the validators: a valid document of each type   *)
(* and the documents that differ from it in one field (for an item's       *)
(* interactable, in two).                                                  *)

GoodTile ==
    [id |-> "meadow", type |-> "grass", tags |-> Absent, properties |-> Absent]

TileDocs ==
    {GoodTile}
    \cup {[GoodTile EXCEPT !.id = v] : v \in {Absent, ""}}
    \cup {[GoodTile EXCEPT !.type = v] : v \in {Absent, "", "water", "lava"}}
    \cup {[GoodTile EXCEPT !.tags = v] : v \in {"array", "string"}}
    \cup {[GoodTile EXCEPT !.properties = v] : v \in {"object", "string"}}

GoodEntity ==
    [id |-> "villager", type |-> "npc", shape |-> Absent, tags |-> Absent,
     properties |-> Absent, dialog |-> Absent, interactable |-> Absent]

EntityDocs ==
    {GoodEntity}
    \cup {[GoodEntity EXCEPT !.id = v] : v \in {Absent, ""}}
    \cup {[GoodEntity EXCEPT !.type = v] : v \in {Absent, "item", "dragon"}}
    \cup {[GoodEntity EXCEPT !.shape = v] : v \in {"circle", "hexagon"}}
    \cup {[GoodEntity EXCEPT !.tags = v] : v \in {"array", "string"}}
    \cup {[GoodEntity EXCEPT !.properties = v] : v \in {"object", "string"}}
    \cup {[GoodEntity EXCEPT !.dialog = v] : v \in {"string", "number"}}
    \cup {[GoodEntity EXCEPT !.type = "item", !.interactable = v] :
             v \in {"boolean", "string"}}

\* an entry of zone.tiles or zone.entities, and one of zone.teleporters
Placed(type) == [x |-> 0, y |-> 0, nan |-> {}, type |-> type]

GoodTeleporter ==
    [x |-> 0, y |-> 0, nan |-> {}, targetZone |-> "village",
     targetX |-> 0, targetY |-> 0]

GoodZone ==
    [id |-> "meadows", width |-> MaxDim, height |-> MaxDim, nan |-> {},
     defaultTile |-> "grass", tiles |-> NoList, entities |-> NoList,
     teleporters |-> NoList]

ZoneDocs ==
    {GoodZone}
    \cup {[GoodZone EXCEPT !.id = Absent]}
    \cup {[GoodZone EXCEPT !.nan = {f}] : f \in {"width", "height"}}
    \cup {[GoodZone EXCEPT !.width = 0], [GoodZone EXCEPT !.height = 0]}
    \cup {[GoodZone EXCEPT !.defaultTile = v] : v \in {Absent, "lava"}}
    \cup {[GoodZone EXCEPT !.tiles = v] :
             v \in {NotArray, List(<<>>),
                    List(<<[Placed("grass") EXCEPT !.nan = {"x"}]>>),
                    List(<<Placed("water"), Placed(Absent)>>)}
                   \cup {List(<<Placed(ty)>>) : ty \in {"water", "lava"}}}
    \cup {[GoodZone EXCEPT !.entities = v] :
             v \in {NotArray, List(<<[Placed("npc") EXCEPT !.nan = {"y"}]>>)}
                   \cup {List(<<Placed(ty)>>) : ty \in {"npc", "dragon", Absent}}}
    \cup {[GoodZone EXCEPT !.teleporters = v] :
             v \in {NotArray, List(<<GoodTeleporter>>),
                    List(<<[GoodTeleporter EXCEPT !.targetZone = Absent]>>),
                    List(<<[GoodTeleporter EXCEPT !.nan = {"targetX"}]>>)}}

Docs(dataType) ==
    CASE dataType = "tile"   -> TileDocs
      [] dataType = "entity" -> EntityDocs
      [] dataType = "zone"   -> ZoneDocs

\* the documents data files with an array are made of
Samples(dataType) ==
    CASE dataType = "tile"   -> {GoodTile,
                                 [GoodTile EXCEPT !.id = "pond", !.type = "water"],
                                 [GoodTile EXCEPT !.type = "lava"],
                                 [GoodTile EXCEPT !.id = Absent]}
      [] dataType = "entity" -> {GoodEntity, [GoodEntity EXCEPT !.type = "dragon"]}
      [] dataType = "zone"   -> {GoodZone, [GoodZone EXCEPT !.nan = {"width"}]}

\* longest array of documents in a data file
MaxItems == 2

SeqsUpTo(S, n) == UNION {[1..k -> S] : k \in 0..n}

\* the data of a file: a single document or an array of documents
Files(dataType) ==
    {[isArray |-> FALSE, docs |-> <<d>>] : d \in Docs(dataType)}
    \cup {[isArray |-> TRUE, docs |-> ds] : ds \in SeqsUpTo(Samples(dataType), MaxItems)}

(* loadTiles, loadEntities and loadZones each hand the data of the files   *)
(* of their index to the validator and the cache of their type; a          *)
(* behaviour follows one of them.                                          *)
FileLoaded(dataType, file) ==
    LET r == DataManager_store(caches, errors, dataType, file)
    IN  /\ IF op = "create" THEN TRUE ELSE arg.dataType = dataType
        /\ caches' = r.caches
        /\ errors' = r.errors
        /\ op' = "fileLoaded"
        /\ ret' = r.ok
        /\ arg' = [dataType |-> dataType, file |-> file]
        /\ UNCHANGED <<sceneVars, log, interaction, busVars, refVars, grids, loaded,
                       tagList, sinceMove, loadVars, npcVars, uiVars>>

NextValidate ==
    \E dataType \in DataTypes : \E file \in Files(dataType) :
       FileLoaded(dataType, file)

SpecValidate == Init /\ [][NextValidate]_vars

\* whether a document has all its required fields
HasRequired(dataType, doc) ==
    LET PlacedOk(e) == e.nan = {} /\ e.type # Absent
        TeleporterOk(e) == e.nan = {} /\ e.targetZone # Absent
    IN  CASE dataType = "tile"   -> doc.id # Absent /\ doc.type # Absent
          [] dataType = "entity" -> doc.id # Absent /\ doc.type # Absent
          [] dataType = "zone"   ->
                /\ doc.id # Absent /\ doc.nan = {} /\ doc.defaultTile # Absent
                /\ \A i \in 1..Len(doc.tiles.items) : PlacedOk(doc.tiles.items[i])
                /\ \A i \in 1..Len(doc.entities.items) :
                      PlacedOk(doc.entities.items[i])
                /\ \A i \in 1..Len(doc.teleporters.items) :
                      TeleporterOk(doc.teleporters.items[i])

\* whether every type field of a document that is present names a known
\* tile or entity type
HasKnownTypes(dataType, doc) ==
    LET Known(v, types) == v = Absent \/ v \in types
    IN  CASE dataType = "tile"   -> Known(doc.type, TileTypes)
          [] dataType = "entity" -> Known(doc.type, EntityTypes)
          [] dataType = "zone"   ->
                /\ Known(doc.defaultTile, TileTypes)
                /\ \A i \in 1..Len(doc.tiles.items) :
                      Known(doc.tiles.items[i].type, TileTypes)
                /\ \A i \in 1..Len(doc.entities.items) :
                      Known(doc.entities.items[i].type, EntityTypes)

\* C27: the data of a file is accepted only if every document in it has all
\* its required fields and only known values in its type fields; when a
\* document lacks a required field or carries an unknown type the data is
\* rejected, an error is recorded and nothing is added to the cache.
C27_OnlyWellFormedDocumentsAccepted ==
    [][ op' = "fileLoaded" =>
          LET dataType == arg'.dataType
              docs == arg'.file.docs
              sound == \A i \in 1..Len(docs) :
                          /\ HasRequired(dataType, docs[i])
                          /\ HasKnownTypes(dataType, docs[i])
          IN  /\ ret' => sound
              /\ ~sound => ~ret' /\ errors' # <<>> /\ caches' = caches ]_vars
-----------------------------------------------------------------------------
(* DataManager.loadAll: the four loadDataFiles run concurrently.  Each     *)
(* fetches the index of its data type and then all the files the index     *)
(* lists at once; every fetch settles at some time, in any order.          *)

GoodInteraction ==
    [id |-> "talk", requiredTags |-> Absent, directions |-> NoList,
     eventType |-> "talk"]

Single(d) == [isArray |-> FALSE, docs |-> <<d>>]
Array(ds) == [isArray |-> TRUE, docs |-> ds]

\* a file that is not there, or whose text is not JSON
NoFile == [isArray |-> FALSE, docs |-> <<>>]

\* the files of the data directories: a.json holds a valid document,
\* b.json an array of two valid documents, the first with the id of the one
\* in a.json, c.json a document that fails validation, and d.json is missing
FileNames == {"a.json", "b.json", "c.json", "d.json"}

ServerFile(dataType, name) ==
    CASE name = "d.json" -> NoFile
      [] dataType = "tile" ->
           (CASE name = "a.json" -> Single(GoodTile)
              [] name = "b.json" ->
                    Array(<<[GoodTile EXCEPT !.tags = "array"],
                            [GoodTile EXCEPT !.id = "pond", !.type = "water"]>>)
              [] name = "c.json" -> Single([GoodTile EXCEPT !.type = "lava"]))
      [] dataType = "entity" ->
           (CASE name = "a.json" -> Single(GoodEntity)
              [] name = "b.json" ->
                    Array(<<[GoodEntity EXCEPT !.shape = "circle"],
                            [GoodEntity EXCEPT !.id = "merchant"]>>)
              [] name = "c.json" -> Single([GoodEntity EXCEPT !.type = "dragon"]))
      [] dataType = "zone" ->
           (CASE name = "a.json" -> Single(GoodZone)
              [] name = "b.json" ->
                    Array(<<[GoodZone EXCEPT !.tiles = List(<<Placed("water")>>)],
                            [GoodZone EXCEPT !.id = "caves"]>>)
              [] name = "c.json" -> Single([GoodZone EXCEPT !.width = 0]))
      [] dataType = "interaction" ->
           (CASE name = "a.json" -> Single(GoodInteraction)
              [] name = "b.json" ->
                    Array(<<[GoodInteraction EXCEPT !.requiredTags = "array"],
                            [GoodInteraction EXCEPT !.id = "read"]>>)
              [] name = "c.json" -> Single([GoodInteraction EXCEPT
                                               !.eventType = Absent]))

Index(files) == [ok |-> TRUE, files |-> files]

\* the data type loadAll starts loading after a data type
After(t) ==
    CASE t = "tile" -> "entity" [] t = "entity" -> "zone"
      [] t = "zone" -> "interaction" [] t = "interaction" -> "tile"

\* What the server holds: the index of one data type lists any of the files
\* (or is missing), the index of the type after it lists a.json, and the
\* other two types have no index.
Servers ==
    {s \in [LoadTypes -> {NoIndex} \cup {Index(fs) : fs \in SUBSET FileNames}] :
        \E rich \in LoadTypes :
           /\ s[After(rich)] = Index({"a.json"})
           /\ \A t \in LoadTypes \ {rich, After(rich)} : s[t] = NoIndex}

\* loadAll has been called: the four index files are being fetched
InitLoadAll ==
    /\ InitScene
    /\ currentZoneId = "village"
    /\ hook = NoHook
    /\ op = "loadAll"
    /\ ret = FALSE
    /\ log = <<>>
    /\ interaction = IdleInteraction
    /\ IdleBus
    /\ grids = IdleGrids
    /\ loaded = <<>>
    /\ arg = <<>>
    /\ tagList = <<>>
    /\ sinceMove = MoveCooldownDuration
    /\ caches = [t \in LoadTypes |-> NoDocs]
    /\ errors = <<>>
    /\ server \in Servers
    /\ fetches = [t \in LoadTypes |-> [NotStarted EXCEPT !.phase = "index"]]
    /\ resolved = FALSE
    /\ warned = {}
    /\ npc = StaticNpc
    /\ timers = {}
    /\ discarded = <<>>
    /\ IdleUi
    /\ IdleRefs

Loading(o) ==
    /\ op' = o
    /\ ret' = FALSE
    /\ UNCHANGED <<sceneVars, log, interaction, busVars, refVars, worldVars,
                   sinceMove, server, npcVars, uiVars>>

\* the fetch of an index settles: without a usable index the load of the
\* data type is over (reported); otherwise all its files are fetched
IndexFetched(t) ==
    /\ fetches[t].phase = "index"
    /\ IF ~server[t].ok
       THEN /\ fetches' = [fetches EXCEPT ![t].phase = "done"]
            /\ warned' = warned \cup {<<t, "index.json">>}
       ELSE /\ fetches' = [fetches EXCEPT
                             ![t].phase = IF server[t].files = {} THEN "done"
                                          ELSE "files",
                             ![t].pending = server[t].files]
            /\ warned' = warned
    /\ UNCHANGED <<caches, errors, resolved>>
    /\ Loading("indexFetched")

\* the fetch of a file settles: a file that is missing or unreadable is
\* reported; the data of any other goes to the validator and the cache
FileFetched(t, name) ==
    LET file == ServerFile(t, name)
        r    == DataManager_store(caches, errors, t, file)
        left == fetches[t].pending \ {name}
    IN  /\ fetches[t].phase = "files"
        /\ name \in fetches[t].pending
        /\ fetches' = [fetches EXCEPT
                         ![t].pending = left,
                         ![t].fetched = Append(@, name),
                         ![t].phase = IF left = {} THEN "done" ELSE "files"]
        /\ IF file = NoFile
           THEN /\ warned' = warned \cup {<<t, name>>}
                /\ UNCHANGED <<caches, errors>>
           ELSE /\ caches' = r.caches
                /\ errors' = r.errors
                /\ warned' = IF r.ok THEN warned ELSE warned \cup {<<t, name>>}
        /\ UNCHANGED resolved
        /\ Loading("fileFetched")

\* Promise.all of the four loads resolves
LoadAllResolved ==
    /\ ~resolved
    /\ \A t \in LoadTypes : fetches[t].phase = "done"
    /\ resolved' = TRUE
    /\ UNCHANGED <<caches, errors, fetches, warned>>
    /\ Loading("resolved")

NextLoadAll ==
    \/ \E t \in LoadTypes : IndexFetched(t)
    \/ \E t \in LoadTypes, name \in FileNames : FileFetched(t, name)
    \/ LoadAllResolved

SpecLoadAll == InitLoadAll /\ [][NextLoadAll]_vars /\ WF_vars(NextLoadAll)

\* the files the index of a data type lists that are there and pass validation
ValidFiles(t) ==
    {name \in server[t].files :
        /\ ServerFile(t, name) # NoFile
        /\ Validator_validate(t, ServerFile(t, name)).ok}

\* the documents of the valid files among the listed ones, in that order
RECURSIVE Delivered(_, _)
Delivered(t, names) ==
    IF names = <<>> THEN <<>>
    ELSE (IF Head(names) \in ValidFiles(t) THEN ServerFile(t, Head(names)).docs
          ELSE <<>>) \o Delivered(t, Tail(names))

IdsOf(docs) == {docs[i].id : i \in 1..Len(docs)}

\* the last document of a list that carries the id
LastWithId(docs, id) ==
    docs[CHOOSE i \in 1..Len(docs) :
            /\ docs[i].id = id
            /\ \A j \in (i + 1)..Len(docs) : docs[j].id # id]

\* the listed files and the indexes that gave no valid data
Skipped ==
    {<<t, "index.json">> : t \in {u \in LoadTypes : ~server[u].ok}}
    \cup {e \in LoadTypes \X FileNames :
             e[2] \in server[e[1]].files /\ e[2] \notin ValidFiles(e[1])}

\* C28 as stated: loadAll resolves, whatever is missing or invalid and in
\* whatever order the fetches settle; what is missing or invalid has been
\* reported; and every document of every other listed file is in the cache
\* of its data type.
C28_LoadAllCachesEveryValidDocument ==
    /\ <>resolved
    /\ [](resolved =>
            /\ warned = Skipped
            /\ \A t \in LoadTypes : \A name \in ValidFiles(t) :
                  LET docs == ServerFile(t, name).docs
                  IN  \A i \in 1..Len(docs) :
                         /\ docs[i].id \in DOMAIN caches[t]
                         /\ caches[t][docs[i].id] = docs[i])

\* C28, amended: loadAll resolves, what is missing or invalid has been
\* reported, and each cache holds exactly the ids of the documents of the
\* other listed files; under an id that several of those documents carry
\* it holds the one that was stored last, which depends on the order in
\* which the fetches settled.
C28_LoadAllCachesLastDocumentPerId ==
    /\ <>resolved
    /\ [](resolved =>
            /\ warned = Skipped
            /\ \A t \in LoadTypes :
                  LET docs == Delivered(t, fetches[t].fetched)
                  IN  /\ DOMAIN caches[t] = IdsOf(docs)
                      /\ \A id \in IdsOf(docs) :
                            caches[t][id] = LastWithId(docs, id))

\* loadAll has resolved after the index of the tiles listed all four files
C28_Witness ==
    /\ resolved
    /\ server["tile"].files = FileNames
    /\ DOMAIN caches["tile"] = {"meadow", "pond"}
    /\ <<"tile", "c.json">> \in warned

-----------------------------------------------------------------------------
(* NPC movement.  The NPC is the village's guard; its timers are the       *)
(* setTimeout calls not yet run or cleared.  A timer that fires leaves the *)
(* pending set before its callback runs, while this.moveTimer still holds  *)
(* its id.  The callbacks return what they attempted.                      *)

NpcId == "guard"

\* the delay of the patrol timer, of the retry under cooldown, and the
\* cooldown a successful random move sets (ms)
PatrolDelay == 2000
RetryDelay == 500
NpcMoveCooldown == 1000

\* MathUtils.randomInt(2000, 5000): the ends and a value between
RandomDelays == {2000, 3500, 5000}

MaxPattern == 2

Patterns == UNION {[1..n -> Directions] : n \in 0..MaxPattern}

\* self: where the NPC object stands in the entity list the scene holds
World3 == [s |-> Scene, npc |-> npc, timers |-> timers,
           self |-> IndexOfId(entities, NpcId)]

NoStep == [attempted |-> "none", moved |-> FALSE]

\* the timer whose callback a step ran, or the delta handed to update
NoCall == [id |-> NoTimer, callback |-> "none", delay |-> 0]

\* setTimeout hands out an id no pending timer has; the id the NPC still
\* holds is not handed out again either
NPC_setTimeout(w, callback, delay) ==
    LET used == {t.id : t \in w.timers} \cup {w.npc.moveTimer}
        id   == Min({k \in 1..(Cardinality(used) + 1) : k \notin used})
    IN  [w EXCEPT !.timers = @ \cup {[id |-> id, callback |-> callback,
                                      delay |-> delay]},
                  !.npc.moveTimer = id]

NPC_clearTimer(w) ==
    IF w.npc.moveTimer # NoTimer
    THEN [w EXCEPT !.timers = {t \in @ : t.id # w.npc.moveTimer}]
    ELSE w

NPC_update(w, delta) ==
    IF w.npc.moveCooldown > 0
    THEN [w EXCEPT !.npc.moveCooldown = @ - delta]
    ELSE w

NPC_startPatrol(w) ==
    IF Len(w.npc.movementPattern) = 0 THEN w
    ELSE Bind(NPC_clearTimer(w),
              LAMBDA w1 : NPC_setTimeout(w1, "moveInPattern", PatrolDelay))

\* mutant: the pattern advances only when the step succeeded
NPC_moveInPattern_advanceOnSuccess(w) ==
    IF Len(w.npc.movementPattern) = 0 THEN Result(w, NoStep)
    ELSE LET direction == w.npc.movementPattern[w.npc.currentPatternIndex + 1]
             i  == w.self
             Stepped(r) ==
                 Bind([w EXCEPT !.s = r.s,
                                !.npc.currentPatternIndex =
                                    IF r.ret
                                    THEN (@ + 1) % Len(w.npc.movementPattern)
                                    ELSE @],
                      LAMBDA w1 :
                         Result(NPC_setTimeout(w1, "moveInPattern", PatrolDelay),
                                [attempted |-> direction, moved |-> r.ret]))
         IN  Bind(Entity_moveInDirection(w.s, i, direction), Stepped)

NPC_moveInPattern(w) ==
    IF Len(w.npc.movementPattern) = 0 THEN Result(w, NoStep)
    ELSE LET direction == w.npc.movementPattern[w.npc.currentPatternIndex + 1]
             i  == w.self
             Stepped(r) ==
                 Bind([w EXCEPT !.s = r.s,
                                !.npc.currentPatternIndex =
                                    (@ + 1) % Len(w.npc.movementPattern)],
                      LAMBDA w1 :
                         Result(NPC_setTimeout(w1, "moveInPattern", PatrolDelay),
                                [attempted |-> direction, moved |-> r.ret]))
         IN  Bind(Entity_moveInDirection(w.s, i, direction), Stepped)

NPC_startRandomMovement(w, delay) ==
    Bind(NPC_clearTimer(w),
         LAMBDA w1 : NPC_setTimeout(w1, "moveRandomly", delay))

\* mutant: the cooldown is set whether or not the move succeeded
NPC_moveRandomly_alwaysCooldown(w, direction, delay) ==
    IF w.npc.moveCooldown > 0
    THEN Result(NPC_setTimeout(w, "moveRandomly", RetryDelay), NoStep)
    ELSE LET i  == w.self
             Stepped(r) ==
                 Bind([w EXCEPT !.s = r.s,
                                !.npc.moveCooldown = NpcMoveCooldown],
                      LAMBDA w1 :
                         Result(NPC_setTimeout(w1, "moveRandomly", delay),
                                [attempted |-> direction, moved |-> r.ret]))
         IN  Bind(Entity_moveInDirection(w.s, i, direction), Stepped)

\* direction and delay are the two values MathUtils.randomInt returns
NPC_moveRandomly(w, direction, delay) ==
    IF w.npc.moveCooldown > 0
    THEN Result(NPC_setTimeout(w, "moveRandomly", RetryDelay), NoStep)
    ELSE LET i  == w.self
             Stepped(r) ==
                 Bind([w EXCEPT !.s = r.s,
                                !.npc.moveCooldown =
                                    IF r.ret THEN NpcMoveCooldown ELSE @],
                      LAMBDA w1 :
                         Result(NPC_setTimeout(w1, "moveRandomly", delay),
                                [attempted |-> direction, moved |-> r.ret]))
         IN  Bind(Entity_moveInDirection(w.s, i, direction), Stepped)

NPC_stopMovement(w) ==
    Bind(IF w.npc.moveTimer # NoTimer
         THEN [NPC_clearTimer(w) EXCEPT !.npc.moveTimer = NoTimer]
         ELSE w,
         LAMBDA w1 : [w1 EXCEPT !.npc.movement = "none"])

\* the NPC constructor, given config.movement and config.movementPattern
NPC_new(movement, pattern, delay) ==
    LET w1 == [s |-> << >>, timers |-> {}, self |-> 0,
               npc |-> [StaticNpc EXCEPT !.movement = movement,
                                         !.movementPattern = pattern]]
    IN  IF movement = "patrol" /\ Len(pattern) > 0 THEN NPC_startPatrol(w1)
        ELSE IF movement = "random" THEN NPC_startRandomMovement(w1, delay)
        ELSE w1

\* what a method of the NPC leaves behind
Npc(w, o, r, a) ==
    /\ entities' = w.s.entities
    /\ npc' = w.npc
    /\ timers' = w.timers
    /\ op' = o
    /\ ret' = r
    /\ arg' = a
    /\ UNCHANGED discarded
    /\ UNCHANGED <<player, currentZoneId, gameState, dialogActive, inventory,
                   moveCooldown, hook, log, interaction, busVars, refVars, grids,
                   loaded, tagList, sinceMove, dataVars, uiVars>>

Fired(t) == [World3 EXCEPT !.timers = @ \ {t}]

TimerFires(t) ==
    /\ t \in timers
    /\ \E w \in {Fired(t)} :
       \/ /\ t.callback = "moveInPattern"
          /\ \E r \in {NPC_moveInPattern(w)} :
                Npc(r.s, "moveInPattern", r.ret, t)
       \/ /\ t.callback = "moveRandomly"
          /\ \E direction \in Directions, delay \in RandomDelays :
             \E r \in {NPC_moveRandomly(w, direction, delay)} :
                Npc(r.s, "moveRandomly", r.ret, t)

NpcUpdate(delta) ==
    Npc(NPC_update(World3, delta), "npcUpdate", NoStep,
        [NoCall EXCEPT !.callback = "update", !.delay = delta])

StartPatrol ==
    /\ npc.movement = "patrol"
    /\ Npc(NPC_startPatrol(World3), "startPatrol", NoStep, NoCall)

StartRandomMovement ==
    /\ npc.movement = "random"
    /\ \E delay \in RandomDelays :
          Npc(NPC_startRandomMovement(World3, delay), "startRandomMovement",
              NoStep, NoCall)

StopMovement ==
    /\ npc.movement # "none"
    /\ Npc(NPC_stopMovement(World3), "stopMovement", NoStep, NoCall)

InitNpc ==
    /\ currentZoneId = "village"
    /\ entities = Append(ZoneEntities(currentZoneId), ThePlayer)
    /\ player = ThePlayer.id
    /\ gameState = "playing"
    /\ dialogActive = FALSE
    /\ inventory = <<>>
    /\ moveCooldown = 0
    /\ hook = NoHook
    /\ op = "create"
    /\ ret = NoStep
    /\ log = <<>>
    /\ interaction = IdleInteraction
    /\ IdleBus
    /\ grids = IdleGrids
    /\ loaded = <<>>
    /\ arg = NoCall
    /\ tagList = <<>>
    /\ sinceMove = MoveCooldownDuration
    /\ caches = [t \in LoadTypes |-> NoDocs]
    /\ errors = <<>>
    /\ server = [t \in LoadTypes |-> NoIndex]
    /\ fetches = [t \in LoadTypes |-> NotStarted]
    /\ resolved = FALSE
    /\ warned = {}
    /\ \E movement \in {"patrol", "random"}, pattern \in Patterns,
          delay \in RandomDelays :
          \E w \in {NPC_new(movement, pattern, delay)} :
             /\ movement = "random" => pattern = << >>
             /\ npc = w.npc
             /\ timers = w.timers
    /\ discarded = <<>>
    /\ IdleUi
    /\ IdleRefs

NextNpc ==
    \/ \E t \in timers : TimerFires(t)
    \/ \E delta \in Deltas : NpcUpdate(delta)
    \/ StartPatrol
    \/ StartRandomMovement
    \/ StopMovement

SpecNpc == InitNpc /\ [][NextNpc]_vars /\ WF_vars(\E t \in timers : TimerFires(t))

NpcPos == entities[IndexOfId(entities, NpcId)].pos

Patrolling == npc.movement = "patrol" /\ Len(npc.movementPattern) > 0

\* C29: a patrol NPC with a non-empty pattern attempts, at each firing of
\* its timer, the pattern entry its index points at, and then moves the index
\* to the next entry, to the first after the last, whether or not the step
\* succeeded; the index stays within [0, pattern length) and at most one
\* movement timer is pending.
C29_PatrolFollowsPatternInOrder ==
    /\ [](Patrolling =>
            /\ npc.currentPatternIndex \in 0..(Len(npc.movementPattern) - 1)
            /\ Cardinality(timers) <= 1)
    /\ [][ op' = "moveInPattern" /\ Patrolling =>
            /\ ret'.attempted = npc.movementPattern[npc.currentPatternIndex + 1]
            /\ npc'.currentPatternIndex =
                  IF npc.currentPatternIndex + 1 = Len(npc.movementPattern)
                  THEN 0 ELSE npc.currentPatternIndex + 1
            /\ ret'.moved <=> NpcPos' # NpcPos ]_vars

\* a step that failed at the last entry of a two-entry pattern, after which
\* the index is back at the first entry
C29_Witness ==
    /\ op = "moveInPattern"
    /\ Patrolling
    /\ Len(npc.movementPattern) = 2
    /\ npc.currentPatternIndex = 0
    /\ ~ret.moved
    /\ Cardinality(timers) = 1

\* C30: a random-movement NPC attempts no move at a firing under a positive
\* cooldown, gets a cooldown only from a move that succeeded, and after
\* every firing has exactly one pending timer, the one it holds, for its
\* next attempt; its timer keeps firing for as long as stopMovement is not
\* called.
C30_RandomMovementKeepsOneTimer ==
    /\ [](npc.movement = "random" =>
            /\ Cardinality(timers) = 1
            /\ \A t \in timers : t.id = npc.moveTimer
                                 /\ t.callback = "moveRandomly")
    /\ [][ op' = "moveRandomly" =>
            /\ npc.moveCooldown > 0 =>
                  /\ ret'.attempted = "none"
                  /\ entities' = entities
                  /\ npc'.moveCooldown = npc.moveCooldown
            /\ npc'.moveCooldown # npc.moveCooldown =>
                  ret'.moved /\ npc'.moveCooldown = NpcMoveCooldown
            /\ Cardinality(timers') = 1 ]_vars
    /\ [][ npc'.moveCooldown > npc.moveCooldown =>
              op' = "moveRandomly" /\ ret'.moved ]_vars
    /\ ([]<><<\E t \in timers : TimerFires(t)>>_vars
           \/ <>[](npc.movement # "random"))

\* a firing skipped under cooldown that left one retry timer pending
C30_Witness ==
    /\ op = "moveRandomly"
    /\ npc.movement = "random"
    /\ npc.moveCooldown > 0
    /\ ret.attempted = "none"
    /\ \E t \in timers : t.delay = RetryDelay /\ t.id = npc.moveTimer
    /\ Cardinality(timers) = 1

-----------------------------------------------------------------------------
(* Unsubscribing during emit, checked under SpecEvents *)

\* the number of registrations, or of invocations, of a callback
Registered(seq, cb) == Cardinality({k \in 1..Len(seq) : seq[k] = cb})

Invocations(seq, cb) == Cardinality({k \in 1..Len(seq) : seq[k].cb = cb})

\* C31: when listeners unsubscribe themselves while emit fans out, every
\* listener still subscribed when its turn comes is invoked exactly once:
\* a callback that never unsubscribes is invoked once per registration it
\* had when emit was called.
C31_UnsubscribeDuringEmitSkipsNobody ==
    [][\A type \in EventTypes, data \in EventData :
          Emit(type, data) =>
             \A cb \in Callbacks :
                ~Unsubscribing(cb) =>
                   Invocations(invoked', cb) = Registered(listeners[type], cb)]_vars

-----------------------------------------------------------------------------
(* removeEntity called with an entity object.  The zone document may place *)
(* several entities with the id of one definition; the objects built from  *)
(* it differ in their position.                                            *)

MaxPlaced == 3

\* the ids and cells the zone document places items with
PlacedIds == {"coin", "key"}
PlacedCells == {<<0, 0>>, <<2, 1>>}

PlacedItems ==
    {Entity_new(id, "item", c[1], c[2], {"item", "collectible"}, TRUE,
                Directions, TRUE, NoUse, FALSE) : id \in PlacedIds, c \in PlacedCells}

PlacedLists == UNION {[1..n -> PlacedItems] : n \in 1..MaxPlaced}

InitRemove ==
    /\ currentZoneId = "village"
    /\ \E list \in PlacedLists : entities = Append(list, ThePlayer)
    /\ player = ThePlayer.id
    /\ gameState = "playing"
    /\ dialogActive = FALSE
    /\ inventory = <<>>
    /\ moveCooldown = 0
    /\ hook = NoHook
    /\ op = "create"
    /\ ret = FALSE
    /\ log = <<>>
    /\ interaction = IdleInteraction
    /\ IdleBus
    /\ IdleWorld

\* removeEntity(e) with e the object at index k of the list: the list after
\* the call and the entity returned
GameScene_removeEntityObject(ents, k) ==
    LET id    == ents[k].id
        index == IndexOfId(ents, id)
    IN  [list |-> GameScene_removeEntity(ents, id), ret |-> ents[index]]

RemoveEntity(k) ==
    /\ k \in 1..Len(entities)
    /\ \E r \in {GameScene_removeEntityObject(entities, k)} :
          /\ entities' = r.list
          /\ ret' = r.ret
    /\ op' = "removeEntity"
    /\ arg' = [index |-> k]
    /\ UNCHANGED <<player, currentZoneId, gameState, dialogActive, inventory,
                   moveCooldown, hook, log, interaction, busVars, grids,
                   loaded, tagList, engineVars>>

\* the player picks up the item at index k of the list
Pickup(k) ==
    /\ k \in 1..Len(entities)
    /\ entities[k].type = "item"
    /\ PlayerListed
    /\ \E r \in {Item_onPickup(Scene, k, entities[IndexOfId(entities, player)])} :
          /\ entities' = r.s.entities
          /\ inventory' = r.s.inventory
          /\ gameState' = r.s.gameState
          /\ dialogActive' = r.s.dialogActive
          /\ log' = r.s.log
          /\ ret' = r.ret
    /\ op' = "pickup"
    /\ arg' = [index |-> k]
    /\ UNCHANGED <<player, currentZoneId, moveCooldown, hook, interaction,
                   busVars, grids, loaded, tagList, engineVars>>

NextRemove ==
    \/ \E k \in 1..(MaxPlaced + 1) : RemoveEntity(k)
    \/ \E k \in 1..(MaxPlaced + 1) : Pickup(k)

SpecRemove == InitRemove /\ [][NextRemove]_vars

\* C32: removeEntity called with an entity object of the list removes
\* exactly that object and returns it, every other entity staying in place,
\* also when entities share an id; a pickup removes the item picked up and
\* no other.
C32_RemoveEntityRemovesThatObject ==
    [][ op' \in {"removeEntity", "pickup"} =>
          /\ entities' = RemoveAt(entities, arg'.index)
          /\ op' = "removeEntity" => ret' = entities[arg'.index] ]_vars

-----------------------------------------------------------------------------
(* InputManager and the frame: GameScene.update calls inputManager.update  *)
(* and then, by game state, the player's handleInput with the input        *)
(* manager or the dialog's handleInput when INTERACT was just pressed.     *)

\* getKeyConstant: the name the handlers store the state of a key under
InputManager_getKeyConstant(letter) ==
    CHOOSE n \in DOMAIN KeyBinding : KeyBinding[n] = letter

InputManager_handleKeyDown(ks, letter) ==
    [ks EXCEPT ![InputManager_getKeyConstant(letter)] = "true"]

InputManager_handleKeyUp(ks, letter) ==
    [ks EXCEPT ![InputManager_getKeyConstant(letter)] = "false"]

\* update: the first loop sets the state of every key of this.keys that
\* reports isDown, the second copies every property of keyStates to
\* previousKeyStates
InputManager_update(ks, prev, down) ==
    LET ks1 == [n \in StateNames |->
                  IF n \in Letters /\ n \in down THEN "true" ELSE ks[n]]
    IN  [keyStates |-> ks1,
         previousKeyStates |->
            [n \in StateNames |-> IF ks1[n] # "undefined" THEN ks1[n] ELSE prev[n]]]

InputManager_isKeyDown(ks, down, key) ==
    IF ks[key] = "true" THEN TRUE
    ELSE key \in Letters /\ key \in down

InputManager_wasKeyJustPressed(ks, prev, key) ==
    ks[key] = "true" /\ prev[key] = "false"

NoKey == [key |-> "-", delta |-> 0]

\* the keys the user presses and releases
UsedKeys == {"W", "A", "E"}

InitInput ==
    /\ InitScene
    /\ currentZoneId = "village"
    /\ hook = NoHook
    /\ op = "create"
    /\ ret = NoAttempt
    /\ log = <<>>
    /\ interaction = IdleInteraction
    /\ IdleBus
    /\ grids = IdleGrids
    /\ loaded = <<>>
    /\ arg = NoKey
    /\ tagList = <<>>
    /\ IdleEngine

Key(o, letter, ks) ==
    /\ keyStates' = ks
    /\ op' = o
    /\ arg' = [NoKey EXCEPT !.key = letter]
    /\ ret' = NoAttempt
    /\ log' = <<>>
    /\ UNCHANGED <<sceneVars, interaction, busVars, refVars, grids, loaded, tagList,
                   sinceMove, dataVars, npcVars, previousKeyStates, dialog>>

\* the key goes down: its key object reports isDown and the keydown
\* listener runs
KeyDown(letter) ==
    /\ letter \notin keysDown
    /\ keysDown' = keysDown \cup {letter}
    /\ Key("keyDown", letter, InputManager_handleKeyDown(keyStates, letter))

KeyUp(letter) ==
    /\ letter \in keysDown
    /\ keysDown' = keysDown \ {letter}
    /\ Key("keyUp", letter, InputManager_handleKeyUp(keyStates, letter))

\* the keys of CONSTANTS.KEYS that isKeyDown reports as down
HeldKeys(ks, down) ==
    {n \in Keys : InputManager_isKeyDown(ks, down, KeyBinding[n])}

Frame(delta) ==
    \E u \in {InputManager_update(keyStates, previousKeyStates, keysDown)} :
    \E r \in {GameScene_update(Scene, HeldKeys(u.keyStates, keysDown), delta,
                 InputManager_wasKeyJustPressed(u.keyStates, u.previousKeyStates,
                                                KeyBinding.INTERACT))} :
        /\ keyStates' = u.keyStates
        /\ previousKeyStates' = u.previousKeyStates
        /\ entities' = r.s.entities
        /\ player' = r.s.player
        /\ currentZoneId' = r.s.zone
        /\ gameState' = r.s.gameState
        /\ dialogActive' = r.s.dialogActive
        /\ inventory' = r.s.inventory
        /\ moveCooldown' = r.s.moveCooldown
        /\ hook' = r.s.hook
        /\ log' = r.s.log
        /\ op' = "frame"
        /\ ret' = r.ret
        /\ arg' = [NoKey EXCEPT !.delta = delta]
        /\ sinceMove' = IF r.ret.moved THEN 0 ELSE Elapsed(delta)
        /\ UNCHANGED <<interaction, busVars, refVars, grids, loaded, tagList, dataVars,
                       npcVars, keysDown, dialog>>

\* GameScene.showDialog, as an interaction calls it
ShowDialog ==
    \E s \in {Dialog_show(Scene)} :
        /\ gameState' = s.gameState
        /\ dialogActive' = s.dialogActive
        /\ log' = s.log
        /\ op' = "showDialog"
        /\ ret' = NoAttempt
        /\ arg' = NoKey
        /\ UNCHANGED <<entities, player, currentZoneId, inventory, moveCooldown,
                       hook, interaction, busVars, grids, loaded, tagList,
                       engineVars>>

NextInput ==
    \/ \E letter \in UsedKeys : KeyDown(letter)
    \/ \E letter \in UsedKeys : KeyUp(letter)
    \/ \E delta \in Deltas : Frame(delta)
    \/ ShowDialog

SpecInput ==
    InitInput /\ [][NextInput]_vars /\ WF_vars(\E delta \in Deltas : Frame(delta))

\* C33: while a dialog is active (game state DIALOG), a fresh press of the
\* interact key is eventually observed as just pressed by a frame, so that
\* the dialog completes and the game returns to PLAYING.
C33_InteractPressEndsDialog ==
    (gameState = "dialog" /\ op = "keyDown" /\ arg.key = KeyBinding.INTERACT)
       ~> (gameState = "playing")

\* C34: isKeyDown(k) is true exactly while the key of k is held: once the
\* key is up, isKeyDown(k) is false until the key goes down again.
C34_IsKeyDownFollowsTheKey ==
    \A n \in Keys :
       InputManager_isKeyDown(keyStates, keysDown, KeyBinding[n])
          <=> KeyBinding[n] \in keysDown

-----------------------------------------------------------------------------
(* The player in the entity list. createPlayer pushes the one Player of    *)
(* the scene; changeZone, after loadZone has replaced the list by the      *)
(* zone's entities, builds a new Player from the serialized one and pushes *)
(* it. Zone.loadEntities constructs no Player from zone data.              *)

Players(ents) == {i \in 1..Len(ents) : ents[i].type = "player"}

\* C35: after any sequence of moves, interactions, pickups and zone changes
\* (successful or failed, also with a listener that asks for a zone change
\* from inside zone-loaded or zone_change) the entity list holds exactly one
\* Player, and scene.player is that entity.
C35_ExactlyOnePlayerListed ==
    /\ Cardinality(Players(entities)) = 1
    /\ Players(entities) = {IndexOfId(entities, player)}

\* a zone change has put the rebuilt player into the list of the new zone,
\* next to the zone's own entities
C35_Witness ==
    /\ op = "changeZone"
    /\ \E k \in 1..Len(log) : log[k].type = "zone_change" /\ log[k].who = player
    /\ Len(entities) > 1
    /\ entities[Len(entities)].id = player

-----------------------------------------------------------------------------
(* NPCs and zone changes.  loadZone builds the new Zone, whose constructor *)
(* constructs the zone's NPCs (each starts its movement timer), and        *)
(* replaces GameScene.entities by the new zone's list.  Nothing calls      *)
(* stopMovement on the NPCs of the zone left: the objects are no longer in *)
(* the list, their setTimeout timers stay pending, and their callbacks     *)
(* move the object on the grid the scene holds when they fire.             *)

\* zone changes after which the model stops changing zones
MaxDiscarded == 1

\* the NPC constructor run while the timers tm are pending
NPC_constructed(tm, movement, pattern, delay) ==
    LET w1 == [s |-> << >>, timers |-> tm, self |-> 0,
               npc |-> [StaticNpc EXCEPT !.movement = movement,
                                         !.movementPattern = pattern]]
    IN  IF movement = "patrol" /\ Len(pattern) > 0 THEN NPC_startPatrol(w1)
        ELSE IF movement = "random" THEN NPC_startRandomMovement(w1, delay)
        ELSE w1

\* the movement configuration of the guard in the village's document (the
\* first guard object was constructed from it)
GuardConfig == IF Len(discarded) > 0 THEN discarded[1].npc ELSE npc

HasNpc(ents) == IndexOfId(ents, NpcId) # 0

\* changeZone with the NPC objects: those of the zone left stay as they are,
\* those of the zone loaded are constructed
LeaveZone(z, tx, ty) ==
    /\ Len(discarded) < MaxDiscarded
    /\ \E s2 \in {GameScene_changeZone(Scene, z, tx, ty)},
          ok \in {GameScene_loadZone(Scene, z).ret},
          delay \in RandomDelays :
       \E built \in {IF ok /\ HasNpc(s2.entities)
                     THEN NPC_constructed(timers, GuardConfig.movement,
                                          GuardConfig.movementPattern, delay)
                     ELSE [npc |-> IF ok THEN StaticNpc ELSE npc,
                           timers |-> timers]} :
          /\ GuardConfig.movement # "random" => delay = PatrolDelay
          /\ entities' = s2.entities
          /\ player' = s2.player
          /\ currentZoneId' = s2.zone
          /\ gameState' = s2.gameState
          /\ dialogActive' = s2.dialogActive
          /\ inventory' = s2.inventory
          /\ moveCooldown' = s2.moveCooldown
          /\ hook' = s2.hook
          /\ log' = s2.log
          /\ npc' = built.npc
          /\ timers' = built.timers
          /\ discarded' = IF ok /\ HasNpc(entities)
                          THEN Append(discarded,
                                      [npc |-> npc,
                                       body |-> entities[IndexOfId(entities, NpcId)]])
                          ELSE discarded
          /\ op' = "changeZone"
          /\ ret' = NoStep
          /\ arg' = NoCall
          /\ UNCHANGED <<interaction, busVars, refVars, grids, loaded, tagList,
                         sinceMove, dataVars, uiVars>>

\* the timer of the NPC in the list fires
ListedFires(t) ==
    /\ t.id = npc.moveTimer
    /\ TimerFires(t)

\* the discarded object k as its callback sees the scene: the object itself
\* is in no list, the grid and the entities are those of the active zone
Detached(k, t) ==
    [s |-> [Scene EXCEPT !.entities = Append(@, discarded[k].body)],
     npc |-> discarded[k].npc, timers |-> timers \ {t},
     self |-> Len(entities) + 1]

Discard(k, r, o, t) ==
    /\ entities' = SubSeq(r.s.s.entities, 1, Len(entities))
    /\ discarded' = [discarded EXCEPT
                        ![k] = [npc |-> r.s.npc,
                                body |-> r.s.s.entities[Len(entities) + 1]]]
    /\ timers' = r.s.timers
    /\ op' = o
    /\ ret' = r.ret
    /\ arg' = t
    /\ UNCHANGED <<npc, player, currentZoneId, gameState, dialogActive,
                   inventory, moveCooldown, hook, log, interaction, busVars, refVars,
                   grids, loaded, tagList, sinceMove, dataVars, uiVars>>

\* the timer of a discarded NPC object fires
DiscardedFires(k) ==
    \E t \in timers :
       /\ t.id = discarded[k].npc.moveTimer
       /\ \E w \in {Detached(k, t)} :
          \/ /\ t.callback = "moveInPattern"
             /\ \E r \in {NPC_moveInPattern(w)} :
                   Discard(k, r, "moveInPattern", t)
          \/ /\ t.callback = "moveRandomly"
             /\ \E direction \in Directions, delay \in RandomDelays :
                \E r \in {NPC_moveRandomly(w, direction, delay)} :
                   Discard(k, r, "moveRandomly", t)

\* the guard walks west and back, or moves at random
InitLeave ==
    /\ InitNpc
    /\ npc.movement = "patrol" => npc.movementPattern = <<"west", "east">>

\* the cell the player arrives at
ArrivalCells == {<<0, 1>>}

NextLeave ==
    \/ \E z \in ZoneIds \cup {UnknownZone}, c \in ArrivalCells :
          LeaveZone(z, c[1], c[2])
    \/ \E t \in timers : ListedFires(t)
    \/ \E k \in 1..Len(discarded) : DiscardedFires(k)

SpecLeave == InitLeave /\ [][NextLeave]_vars

\* C36: after a zone change no movement timer of an NPC of the zone left
\* is pending (so no such NPC attempts a further move), and the number of
\* pending NPC timers never exceeds the number of NPCs in the active zone.
C36_NoTimerOutlivesItsZone ==
    /\ \A k \in 1..Len(discarded) :
          \A t \in timers : t.id # discarded[k].npc.moveTimer
    /\ Cardinality(timers) <= Cardinality(Npcs)

-----------------------------------------------------------------------------
(* Moves in a direction, checked under Spec *)

\* C37: moveInDirection (an NPC's timer calling it) and Player.move return
\* true only if the entity went one cell in the requested direction (for the
\* player: the position the player_move event reports); for a value that is
\* none of the four directions they return false, leave position and facing
\* as they were, and cause no event, no cooldown and no teleporter check.
C37_TrueOnlyForOneStep ==
    [][/\ \A d \in Directions \cup {BadDirection} :
             (op' = "move" /\ PlayerMove(d)) =>
                LET from == ThePlayerNow.pos
                    to   == <<from[1] + StepOf(d)[1], from[2] + StepOf(d)[2]>>
                IN  IF d \in Directions
                    THEN ret' => /\ Len(log') > 0
                                 /\ log'[1].type = "player_move"
                                 /\ log'[1].pos = to
                    ELSE /\ ret' = FALSE
                         /\ entities' = entities
                         /\ log' = <<>>
                         /\ moveCooldown' = moveCooldown
                         /\ currentZoneId' = currentZoneId
       /\ \A i \in Npcs : \A d \in Directions \cup {BadDirection} :
             (op' = "npcMove" /\ NpcMove(i, d)) =>
                LET from == entities[i].pos
                    to   == <<from[1] + StepOf(d)[1], from[2] + StepOf(d)[2]>>
                IN  IF d \in Directions
                    THEN ret' => entities'[i].pos = to
                    ELSE ret' = FALSE /\ entities' = entities]_vars

-----------------------------------------------------------------------------
(* The Dialog object with its options, timers and callbacks.  u holds the  *)
(* object (active, dialog), the scene's game state, which the scene's own  *)
(* listeners of dialog_start and dialog_end set, the client's listener     *)
(* (hook) and the events emitted by the call (log).  A client listener of  *)
(* dialog_end, and an onComplete callback, show the follow-up dialog.      *)

\* letters of the longest content shown
MaxText == 2

DialogOptions ==
    [length : {0, MaxText}, waitForInput : BOOLEAN, onComplete : {"none", "next"}]

\* the dialog a dialog_end listener or an onComplete callback shows
FollowUp == [length |-> 1, waitForInput |-> TRUE, onComplete |-> "none"]

EndHook == [NoHook EXCEPT !.on = "dialog_end"]

Ui == [active |-> dialogActive, dialog |-> dialog, gameState |-> gameState,
       hook |-> hook, log |-> <<>>]

RECURSIVE Dialog_showOptions(_, _)
RECURSIVE Dialog_completeWithCallbacks(_)

\* scene.events.emit for the dialog's events: the scene's listeners first,
\* then the client's
Dialog_emit(u, type) ==
    LET u1 == [u EXCEPT !.log = Append(@, Event(type)),
                        !.gameState = CASE type = "dialog_start" -> "dialog"
                                        [] type = "dialog_end"   -> "playing"
                                        [] OTHER                 -> @]
    IN  IF type = "dialog_end" /\ u.hook.on = "dialog_end"
        THEN Dialog_showOptions(u1, FollowUp)
        ELSE u1

Dialog_animateText(u) == [u EXCEPT !.dialog.textTimer = TRUE]

\* mutant: a dialog being shown is not completed first
Dialog_showOptions_noComplete(u, options) ==
    Bind([u EXCEPT !.dialog = [length |-> options.length, letterIndex |-> 0,
                               textTimer |-> FALSE, closeTimer |-> FALSE,
                               waitForInput |-> options.waitForInput,
                               onComplete |-> options.onComplete],
                   !.active = TRUE],
         LAMBDA u2 : Dialog_animateText(Dialog_emit(u2, "dialog_start")))

Dialog_showOptions(u, options) ==
    Bind(IF u.active THEN Dialog_completeWithCallbacks(u) ELSE u,
         LAMBDA u1 :
            Bind([u1 EXCEPT !.dialog = [length |-> options.length,
                                        letterIndex |-> 0,
                                        textTimer |-> FALSE,
                                        closeTimer |-> FALSE,
                                        waitForInput |-> options.waitForInput,
                                        onComplete |-> options.onComplete],
                            !.active = TRUE],
                 LAMBDA u2 : Dialog_animateText(Dialog_emit(u2, "dialog_start"))))

Dialog_completeWithCallbacks(u) ==
    IF ~u.active THEN u
    ELSE Bind(Dialog_emit([u EXCEPT !.dialog.textTimer = FALSE,
                                    !.dialog.closeTimer = FALSE,
                                    !.active = FALSE], "dialog_end"),
              LAMBDA u1 : IF u1.dialog.onComplete = "next"
                          THEN Dialog_showOptions(u1, FollowUp)
                          ELSE u1)

Dialog_updateDialogText(u) == Dialog_emit(u, "dialog-update")

\* the callback of the interval animateText set
Dialog_textTick(u) ==
    IF u.dialog.letterIndex < u.dialog.length
    THEN Dialog_updateDialogText([u EXCEPT !.dialog.letterIndex = @ + 1])
    ELSE [u EXCEPT !.dialog.textTimer = FALSE,
                   !.dialog.closeTimer = IF ~u.dialog.waitForInput THEN TRUE ELSE @]

Dialog_skipAnimation(u) ==
    IF ~u.active THEN u
    ELSE Bind(Dialog_updateDialogText(
                 [u EXCEPT !.dialog.textTimer = FALSE,
                           !.dialog.letterIndex = u.dialog.length]),
              LAMBDA u1 : IF ~u1.dialog.waitForInput
                          THEN [u1 EXCEPT !.dialog.closeTimer = TRUE]
                          ELSE u1)

Dialog_handleInput(u) ==
    IF ~u.active THEN u
    ELSE IF u.dialog.letterIndex < u.dialog.length THEN Dialog_skipAnimation(u)
    ELSE Dialog_completeWithCallbacks(u)

\* what a call on the Dialog object leaves behind
Talk(u, o) ==
    /\ dialogActive' = u.active
    /\ dialog' = u.dialog
    /\ gameState' = u.gameState
    /\ log' = u.log
    /\ op' = o
    /\ UNCHANGED <<entities, player, currentZoneId, inventory, moveCooldown,
                   hook, ret, interaction, busVars, refVars, worldVars, sinceMove,
                   dataVars, npcVars, inputVars>>

Show(options) == \E u \in {Dialog_showOptions(Ui, options)} : Talk(u, "show")

HandleInput == \E u \in {Dialog_handleInput(Ui)} : Talk(u, "handleInput")

SkipAnimation == \E u \in {Dialog_skipAnimation(Ui)} : Talk(u, "skipAnimation")

Complete == \E u \in {Dialog_completeWithCallbacks(Ui)} : Talk(u, "complete")

TextTimerFires ==
    /\ dialog.textTimer
    /\ \E u \in {Dialog_textTick(Ui)} : Talk(u, "textTimer")

CloseTimerFires ==
    /\ dialog.closeTimer
    /\ \E u \in {Dialog_completeWithCallbacks(
                    [Ui EXCEPT !.dialog.closeTimer = FALSE])} :
          Talk(u, "closeTimer")

InitDialog ==
    /\ InitScene
    /\ currentZoneId = "village"
    /\ hook \in {NoHook, EndHook}
    /\ op = "create"
    /\ ret = FALSE
    /\ log = <<>>
    /\ interaction = IdleInteraction
    /\ IdleBus
    /\ IdleWorld

NextDialog ==
    \/ \E options \in DialogOptions : Show(options)
    \/ HandleInput
    \/ SkipAnimation
    \/ Complete
    \/ TextTimerFires
    \/ CloseTimerFires

SpecDialog == InitDialog /\ [][NextDialog]_vars

IsDialogEvent(e) == e.type \in {"dialog_start", "dialog_end"}

\* the dialog_start and dialog_end events in a log, in order
DialogEvents(l) == SelectSeq(l, IsDialogEvent)

\* l alternates between the two event types, beginning with first
Alternates(l, first) ==
    \A k \in 1..Len(l) :
       l[k].type = IF k % 2 = 1 THEN first
                   ELSE IF first = "dialog_start" THEN "dialog_end"
                   ELSE "dialog_start"

\* C38: over any sequence of show, handleInput, skipAnimation, complete and
\* timer firings, with a dialog_end listener or an onComplete callback that
\* shows a dialog, dialog_start and dialog_end strictly alternate, beginning
\* with dialog_start, and isActive() is true exactly between a dialog_start
\* and the next dialog_end: the events of each call continue the alternation
\* where the last call left it, and leave the dialog active exactly when the
\* last of them is a dialog_start.
C38_DialogEventsAlternate ==
    [][LET l == DialogEvents(log') IN
       /\ Alternates(l, IF dialogActive THEN "dialog_end" ELSE "dialog_start")
       /\ dialogActive' = IF l = <<>> THEN dialogActive
                          ELSE l[Len(l)].type = "dialog_start"]_vars

-----------------------------------------------------------------------------
(* The game paused by a dialog: frames with the movement key held, the     *)
(* guard's movement timer, a dialog shown and completed.  GameScene.update *)
(* looks at the game state; the NPC's setTimeout callbacks do not.         *)

\* the movement key the user holds
PauseKeys == {KeyBinding.UP}

NextPause ==
    \/ \E letter \in PauseKeys : KeyDown(letter)
    \/ \E letter \in PauseKeys : KeyUp(letter)
    \/ \E delta \in Deltas : Frame(delta)
    \/ ShowDialog
    \/ DialogComplete
    \/ \E t \in timers : ListedFires(t)

SpecPause == InitLeave /\ [][NextPause]_vars

Positions(ents) == [i \in 1..Len(ents) |-> ents[i].pos]

\* C39: while the game state is DIALOG no entity changes position: frames
\* turn no input into moves or interactions, and NPCs do not move.
C39_NothingMovesDuringDialog ==
    [][gameState = "dialog" => Positions(entities') = Positions(entities)]_vars

-----------------------------------------------------------------------------
(* Zone definitions and the Zone objects built from them.  getZone returns *)
(* the cached definition itself; Grid.loadFromData hands each tile entry's *)
(* properties object to the Tile constructor (a new object only when the   *)
(* entry has none), and the Entity constructor keeps config.properties and *)
(* config.tags (a new object or array only when the entry has none).  A    *)
(* field of the Zone object that is "definition" refers to the object of   *)
(* the definition; "own" refers to an object the constructor made.  The    *)
(* Tile's tags are always its own (concat makes a new array).              *)

PropKeys == {"locked"}
PropValues == {"yes", "no"}
EmptyProps == [k \in PropKeys |-> Absent]

\* a zone definition with one tile entry and one NPC entry, whose properties
\* and tags are given or left out
\* a member of an entry: whether the entry has it, and the object it holds
Given(v) == [given |-> TRUE, value |-> v]
Missing(v) == [given |-> FALSE, value |-> v]

Definitions ==
    [tile   : [type : {"grass"},
               properties : {Missing(EmptyProps), Given(EmptyProps)}],
     entity : [type : {"npc"},
               tags : {Missing(<<>>), Given(<<"npc", "guard">>)},
               properties : {Missing(EmptyProps), Given(EmptyProps)}]]

\* config.properties || {}, config.tags || []
RefTo(member) == IF member.given THEN "definition" ELSE "own"

\* new Zone(scene, zoneData)
Zone_new(def) ==
    [tile   |-> [type |-> def.tile.type,
                 properties |-> RefTo(def.tile.properties),
                 ownProperties |-> EmptyProps,
                 tags |-> Tile_tags(def.tile.type, <<>>)],
     entity |-> [type |-> def.entity.type,
                 tags |-> RefTo(def.entity.tags),
                 ownTags |-> <<"npc", "character">>,
                 properties |-> RefTo(def.entity.properties),
                 ownProperties |-> EmptyProps]]

Refs == [definition |-> definition, zone |-> currentZone]

Tile_setProperty(w, key, value) ==
    IF w.zone.tile.properties = "definition"
    THEN [w EXCEPT !.definition.tile.properties.value[key] = value]
    ELSE [w EXCEPT !.zone.tile.ownProperties[key] = value]

Tile_addTag(w, tag) == [w EXCEPT !.zone.tile.tags = Tags_addTag(@, tag)]

Tile_removeTag(w, tag) == [w EXCEPT !.zone.tile.tags = Tags_removeTag(@, tag)]

Entity_addTag(w, tag) ==
    IF w.zone.entity.tags = "definition"
    THEN [w EXCEPT !.definition.entity.tags.value = Tags_addTag(@, tag)]
    ELSE [w EXCEPT !.zone.entity.ownTags = Tags_addTag(@, tag)]

Entity_removeTag(w, tag) ==
    IF w.zone.entity.tags = "definition"
    THEN [w EXCEPT !.definition.entity.tags.value = Tags_removeTag(@, tag)]
    ELSE [w EXCEPT !.zone.entity.ownTags = Tags_removeTag(@, tag)]

\* what the tile and the entity of the Zone object show
Tile_properties(w) ==
    IF w.zone.tile.properties = "definition"
    THEN w.definition.tile.properties.value ELSE w.zone.tile.ownProperties

Entity_tags(w) ==
    IF w.zone.entity.tags = "definition"
    THEN w.definition.entity.tags.value ELSE w.zone.entity.ownTags

Mutate(w, o) ==
    /\ definition' = w.definition
    /\ currentZone' = w.zone
    /\ op' = o
    /\ UNCHANGED <<sceneVars, ret, log, interaction, busVars, worldVars,
                   sinceMove, dataVars, npcVars, uiVars>>

\* GameScene.loadZone: a Zone object is built from the cached definition
LoadDefinition ==
    \E w \in {[Refs EXCEPT !.zone = Zone_new(definition)]} : Mutate(w, "loadZone")

SetProperty(key, value) ==
    \E w \in {Tile_setProperty(Refs, key, value)} : Mutate(w, "setProperty")

TileAddTag(tag) ==
    \E w \in {Tile_addTag(Refs, tag)} : Mutate(w, "tileAddTag")

TileRemoveTag(tag) ==
    \E w \in {Tile_removeTag(Refs, tag)} : Mutate(w, "tileRemoveTag")

EntityAddTag(tag) ==
    \E w \in {Entity_addTag(Refs, tag)} : Mutate(w, "entityAddTag")

EntityRemoveTag(tag) ==
    \E w \in {Entity_removeTag(Refs, tag)} : Mutate(w, "entityRemoveTag")

\* the tags added to and removed from the loaded zone's tile and entity
ZoneTags == {"guard", "locked"}

InitRefs ==
    /\ InitScene
    /\ currentZoneId = "village"
    /\ hook = NoHook
    /\ op = "create"
    /\ ret = FALSE
    /\ log = <<>>
    /\ interaction = IdleInteraction
    /\ IdleBus
    /\ grids = IdleGrids
    /\ loaded = <<>>
    /\ arg = <<>>
    /\ tagList = <<>>
    /\ sinceMove = MoveCooldownDuration
    /\ caches = [t \in LoadTypes |-> NoDocs]
    /\ errors = <<>>
    /\ server = [t \in LoadTypes |-> NoIndex]
    /\ fetches = [t \in LoadTypes |-> NotStarted]
    /\ resolved = FALSE
    /\ warned = {}
    /\ npc = StaticNpc
    /\ timers = {}
    /\ discarded = <<>>
    /\ IdleUi
    /\ definition \in Definitions
    /\ currentZone = Zone_new(definition)

NextRefs ==
    \/ LoadDefinition
    \/ \E key \in PropKeys, value \in PropValues : SetProperty(key, value)
    \/ \E tag \in ZoneTags : TileAddTag(tag)
    \/ \E tag \in ZoneTags : TileRemoveTag(tag)
    \/ \E tag \in ZoneTags : EntityAddTag(tag)
    \/ \E tag \in ZoneTags : EntityRemoveTag(tag)

SpecRefs == InitRefs /\ [][NextRefs]_vars

\* C40: building a Zone from a cached definition does not modify the
\* definition, and neither does mutating the loaded zone's tile or entity
\* (Tile.setProperty, addTag, removeTag), so every later load of the zone
\* starts from the same tile and the same entity.
C40_DefinitionIsNeverModified ==
    [][definition' = definition]_vars
====
